---- MODULE Spec2Model ----
(***************************************************************************)
(* HermesNet tracker server: the per-connection user state machine         *)
(* (hermesnet/server/processor.py), the request processor that answers     *)
(* Declare/All/Search/Query, and the connection loop that feeds it         *)
(* (hermesnet/server/network.py).                                          *)
(*                                                                         *)
(* Two specifications share the definitions below.                         *)
(*   ServerSpec  the connection lifecycle with Processor.add_client as it  *)
(*               is written: it awaits the handler task it has created.    *)
(*   Spec        the handler task of each connection runs beside the       *)
(*               connection loop, which is what add_client's docstring and *)
(*               the example processor in server/network.py describe; the  *)
(*               loop, the queues, the handler and the UserManager are     *)
(*               the code's.                                               *)
(* Timestamps (last_connected) are written and never read; they are left   *)
(* out of the records.                                                     *)
(***************************************************************************)
EXTENDS Naturals, Sequences, FiniteSets, TLC

\* ------------------------------------------------------------------ bounds
\* Connections accepted during one run of the server.
MaxConnects == 3
\* Requests (frames other than Fin) that all clients together write.
MaxRequests == 4

\* Connection slots that can be open at the same time.
Slots == {1, 2}

\* ------------------------------------------------------------- filesystem
\* Names and search terms are sequences of characters.
File(name, hash, size) ==
    [type |-> "file", name |-> name, hash |-> hash, size |-> size]

Directory(name, contents) ==
    [type |-> "directory", name |-> name, contents |-> contents]

\* Optional[Directory]: the None of Directory.search.
None == [type |-> "None"]

\* `term in name` on Python strings.
IsSubstring(term, name) ==
    \E i \in 0..Len(name) :
        /\ i + Len(term) <= Len(name)
        /\ SubSeq(name, i + 1, i + Len(term)) = term

\* A match of the start of the name only.
FileNameStartsWith(file, term) ==
    Len(term) <= Len(file.name) /\ SubSeq(file.name, 1, Len(term)) = term

\* File.__contains__
FileContains(file, term) == IsSubstring(term, file.name)

RECURSIVE DirCopy(_)
\* Directory.copy / File.copy: a structurally equal value.
DirCopy(x) ==
    IF x.type = "file"
    THEN File(x.name, x.hash, x.size)
    ELSE Directory(x.name, [i \in 1..Len(x.contents) |-> DirCopy(x.contents[i])])

\* A search that keeps the matching files of the directory itself only.
SearchContentsFlat(contents, term) ==
    SelectSeq(contents, LAMBDA x : x.type = "file" /\ FileContains(x, term))

RECURSIVE DirSearch(_, _)
RECURSIVE SearchContents(_, _)
\* The loop of Directory.search over self.contents.
SearchContents(contents, term) ==
    IF contents = <<>> THEN <<>>
    ELSE LET x == Head(contents)
             rest == SearchContents(Tail(contents), term)
         IN IF x.type = "directory"
            THEN LET searched == DirSearch(x, term)
                 IN IF searched # None THEN <<searched>> \o rest ELSE rest
            ELSE IF FileContains(x, term) THEN <<x>> \o rest ELSE rest

\* A search that returns the directory with whatever was kept, nothing
\* included.
DirSearchKeepsEmpty(dir, term) ==
    IF IsSubstring(term, dir.name) THEN DirCopy(dir)
    ELSE Directory(dir.name, SearchContents(dir.contents, term))

\* Directory.search
DirSearch(dir, term) ==
    IF IsSubstring(term, dir.name) THEN DirCopy(dir)
    ELSE LET contents == SearchContents(dir.contents, term)
         IN IF contents = <<>> THEN None ELSE Directory(dir.name, contents)

\* An iteration that does not descend into subdirectories.
DirIterFlat(dir) ==
    <<dir>> \o SelectSeq(dir.contents, LAMBDA x : x.type = "file")

RECURSIVE DirIter(_)
RECURSIVE IterContents(_)
IterContents(contents) ==
    IF contents = <<>> THEN <<>>
    ELSE LET x == Head(contents)
         IN (IF x.type = "directory" THEN DirIter(x) ELSE <<x>>)
            \o IterContents(Tail(contents))

\* An iteration that yields the directory after its contents.
DirIterPostOrder(dir) == IterContents(dir.contents) \o <<dir>>

\* Directory.__iter__: pre-order, the directory itself first.
DirIter(dir) == <<dir>> \o IterContents(dir.contents)

\* ------------------------------------------------------------------ users
\* protocol.User(username, ip_address)
User(name, ip) == <<name, ip>>

OnlineGuest(addr) == [kind |-> "OnlineGuest", addr |-> addr]

OfflineGuest == [kind |-> "OfflineGuest"]

LoggedInUser(addr, name, password, dirs) ==
    [kind |-> "LoggedInUser", addr |-> addr, name |-> name,
     password |-> password, declared_dirs |-> dirs]

LoggedOutUser(name, password) ==
    [kind |-> "LoggedOutUser", name |-> name, password |-> password]

\* LoggedInUser.to_tuple
to_tuple(user) == User(user.name, user.addr[1])

\* ---------------------------------------------------------------- messages
Login(name, password) ==
    [type |-> "Login", username |-> name, password |-> password]
WrongPassword == [type |-> "WrongPassword"]
Ping(msg) == [type |-> "Ping", message |-> msg]
\* A Pong with the default text of the class instead of the Ping's.
PongDefaultText(msg) == [type |-> "Pong", message |-> "Eyo!!"]

Pong(msg) == [type |-> "Pong", message |-> msg]
All == [type |-> "All"]
Ok == [type |-> "Ok"]
Error(text) == [type |-> "Error", error_text |-> text]
Declare(dir) == [type |-> "Declare", directory |-> dir]
Search(term) == [type |-> "Search", search_term |-> term]
SearchResults(results) == [type |-> "SearchResults", results |-> results]
Fin == [type |-> "Fin"]
Query(hash) == [type |-> "Query", file_hash |-> hash]
QuerySearchResults(results) ==
    [type |-> "QuerySearchResults", results |-> results]

\* What read_message raises for a frame that messages.from_bytes rejects.
BadFrame == [type |-> "BadFrame"]


\* ------------------------------------------------------- Python containers
\* list.remove(x): drops the first element equal to x.
ListRemove(list, x) ==
    IF \E i \in 1..Len(list) : list[i] = x
    THEN LET i == CHOOSE k \in 1..Len(list) :
                      list[k] = x /\ \A j \in 1..(k - 1) : list[j] # x
         IN SubSeq(list, 1, i - 1) \o SubSeq(list, i + 1, Len(list))
    ELSE list

\* A dict is the sequence of its <<key, value>> items in insertion order.
DictKeys(dict) == {dict[i][1] : i \in 1..Len(dict)}

DictGet(dict, key) ==
    dict[CHOOSE i \in 1..Len(dict) : dict[i][1] = key][2]

\* dict[key] = value: a present key keeps its place and takes the new value.
DictSet(dict, key, value) ==
    IF key \in DictKeys(dict)
    THEN [i \in 1..Len(dict) |->
            IF dict[i][1] = key THEN <<key, value>> ELSE dict[i]]
    ELSE Append(dict, <<key, value>>)

\* ------------------------------------------------------------ UserManager
\* UserManager.__init__
UserManagerInit ==
    [logged_in_users |-> <<>>, logged_out_users |-> <<>>,
     online_guests |-> <<>>, offline_guests |-> <<>>]

\* Each method maps the manager to [um |-> the manager after, user |-> the
\* value returned, raised |-> the exception raised or "none"].
create_guest(um, addr) ==
    [um |-> [um EXCEPT !.online_guests = Append(@, OnlineGuest(addr))],
     user |-> OnlineGuest(addr),
     raised |-> "none"]

\* A disconnect_guest that leaves the guest among the online ones.
disconnect_guest_keeps_online(um, guest) ==
    [um |-> [um EXCEPT !.offline_guests = Append(@, OfflineGuest)],
     user |-> OfflineGuest,
     raised |-> "none"]

disconnect_guest(um, guest) ==
    [um |-> [um EXCEPT !.offline_guests = Append(@, OfflineGuest),
                       !.online_guests = ListRemove(@, guest)],
     user |-> OfflineGuest,
     raised |-> "none"]

\* log_out_user taking the newest logged-in record instead of the user's.
log_out_user_pops_last(um, user) ==
    [um |-> [um EXCEPT !.logged_in_users = SubSeq(@, 1, Len(@) - 1),
                       !.logged_out_users =
                           Append(@, LoggedOutUser(user.name, user.password))],
     user |-> LoggedOutUser(user.name, user.password),
     raised |-> "none"]

log_out_user(um, user) ==
    [um |-> [um EXCEPT !.logged_in_users = ListRemove(@, user),
                       !.logged_out_users =
                           Append(@, LoggedOutUser(user.name, user.password))],
     user |-> LoggedOutUser(user.name, user.password),
     raised |-> "none"]

\* The for/else of _log_in_guest: the first logged-out record with the name.
FirstLoggedOut(um, name) ==
    um.logged_out_users[
        CHOOSE i \in 1..Len(um.logged_out_users) :
            /\ um.logged_out_users[i].name = name
            /\ \A j \in 1..(i - 1) : um.logged_out_users[j].name # name]

log_in_guest(um, guest, name, password) ==
    IF \A i \in 1..Len(um.logged_out_users) :
           um.logged_out_users[i].name # name
    THEN [um |-> um, user |-> guest, raised |-> "LookupError"]
    ELSE LET user == FirstLoggedOut(um, name)
         IN IF user.password # password
            THEN [um |-> um, user |-> guest, raised |-> "PermissionError"]
            ELSE LET connected ==
                         LoggedInUser(guest.addr, user.name, user.password, <<>>)
                 IN [um |-> [um EXCEPT
                               !.online_guests = ListRemove(@, guest),
                               !.logged_out_users = ListRemove(@, user),
                               !.logged_in_users = Append(@, connected)],
                     user |-> connected,
                     raised |-> "none"]

\* _register_guest without the removal of the guest.
register_guest_keeps_guest(um, guest, name, password) ==
    LET user == LoggedInUser(guest.addr, name, password, <<>>)
    IN [um |-> [um EXCEPT !.logged_in_users = Append(@, user)],
        user |-> user,
        raised |-> "none"]

register_guest(um, guest, name, password) ==
    LET user == LoggedInUser(guest.addr, name, password, <<>>)
    IN [um |-> [um EXCEPT !.logged_in_users = Append(@, user),
                          !.online_guests = ListRemove(@, guest)],
        user |-> user,
        raised |-> "none"]

login_or_register_guest(um, guest, name, password) ==
    LET logged_in == log_in_guest(um, guest, name, password)
    IN IF logged_in.raised = "LookupError"
       THEN register_guest(um, guest, name, password)
       ELSE logged_in

\* A decalre_dir on a copy of the user: the record in logged_in_users is
\* left as it was.
decalre_dir_on_copy(um, user, dir) ==
    [um |-> um,
     user |-> [user EXCEPT !.declared_dirs = Append(@, dir)],
     raised |-> "none"]

\* LoggedInUser.decalre_dir: the object in logged_in_users is the handler's
\* user, so the append shows in both.
decalre_dir(um, user, dir) ==
    LET declared == [user EXCEPT !.declared_dirs = Append(@, dir)]
    IN [um |-> [um EXCEPT !.logged_in_users =
                   [i \in 1..Len(@) |->
                       IF @[i].addr = user.addr THEN declared ELSE @[i]]],
        user |-> declared,
        raised |-> "none"]

\* ---------------------------------------------------------------- Processor
RECURSIVE AllDirsFrom(_)
AllDirsFrom(users) ==
    IF users = <<>> THEN <<>>
    ELSE LET user == users[Len(users)]
         IN DictSet(AllDirsFrom(SubSeq(users, 1, Len(users) - 1)),
                    to_tuple(user), user.declared_dirs)

\* Processor._get_all_dirs
get_all_dirs(um) == SearchResults(AllDirsFrom(um.logged_in_users))

RECURSIVE SearchedDirectories(_, _)
\* The inner loop of Processor._search over one user's declared_dirs.
SearchedDirectories(dirs, term) ==
    IF dirs = <<>> THEN <<>>
    ELSE LET searched == DirSearch(Head(dirs), term)
             rest == SearchedDirectories(Tail(dirs), term)
         IN IF searched # None THEN <<searched>> \o rest ELSE rest

RECURSIVE SearchFrom(_, _)
SearchFrom(users, term) ==
    IF users = <<>> THEN <<>>
    ELSE LET user == users[Len(users)]
             before == SearchFrom(SubSeq(users, 1, Len(users) - 1), term)
             searched_directories ==
                 SearchedDirectories(user.declared_dirs, term)
         IN IF searched_directories # <<>>
            THEN DictSet(before, to_tuple(user), searched_directories)
            ELSE before

\* Processor._search
search(um, term) == SearchResults(SearchFrom(um.logged_in_users, term))

RECURSIVE FilesOfDirs(_)
\* (file for dir in user.declared_dirs for file in dir if isinstance(file, File))
FilesOfDirs(dirs) ==
    IF dirs = <<>> THEN <<>>
    ELSE SelectSeq(DirIter(Head(dirs)), LAMBDA x : x.type = "file")
         \o FilesOfDirs(Tail(dirs))

RECURSIVE HoldersOf(_, _)
\* _get_all_files()[hash]: one entry per file with the hash, in the order
\* of logged_in_users, declared_dirs and the traversal.
HoldersOf(users, hash) ==
    IF users = <<>> THEN <<>>
    ELSE LET user == Head(users)
             files == SelectSeq(FilesOfDirs(user.declared_dirs),
                                LAMBDA f : f.hash = hash)
         IN [i \in 1..Len(files) |-> to_tuple(user)]
            \o HoldersOf(Tail(users), hash)

\* A _query_file that answers an unknown hash with an Error.
query_file_unknown_is_error(um, hash) ==
    IF HoldersOf(um.logged_in_users, hash) = <<>>
    THEN Error("Unknown hash")
    ELSE QuerySearchResults(HoldersOf(um.logged_in_users, hash))

\* Processor._query_file: a hash nobody declared is a KeyError, answered [].
query_file(um, hash) == QuerySearchResults(HoldersOf(um.logged_in_users, hash))

GuestError == Error("Unregistered users are only allowed to login!")
\* The fall-through of a logged-in user answered with the guests' error.
UnrecognizedAnsweredAsGuest == GuestError

UnrecognizedError == Error("Unrecognized command??")

\* A guest's request answered as if the guest were logged in.
guest_request_served(um, user, request) ==
    [um |-> um, user |-> user,
     response |-> CASE request.type = "Ping" -> Pong(request.message)
                    [] request.type = "Query" ->
                         QuerySearchResults(
                             HoldersOf(um.logged_in_users, request.file_hash))
                    [] OTHER -> GuestError]

\* `case OnlineGuest(), _` of Processor._handle_request.
guest_request(um, user, request) ==
    [um |-> um, user |-> user, response |-> GuestError]

\* Processor._handle_request: [um, user, response]; response is None when the
\* new user is a DisconnectedUser.
handle_request(um, user, request) ==
    CASE user.kind = "LoggedInUser" /\ request.type = "Fin" ->
           LET r == log_out_user(um, user)
           IN [um |-> r.um, user |-> r.user, response |-> None]
      [] user.kind = "OnlineGuest" /\ request.type = "Fin" ->
           LET r == disconnect_guest(um, user)
           IN [um |-> r.um, user |-> r.user, response |-> None]
      [] user.kind = "OnlineGuest" /\ request.type = "Login" ->
           LET r == login_or_register_guest(um, user, request.username,
                                            request.password)
           IN IF r.raised = "PermissionError"
              THEN [um |-> um, user |-> user, response |-> WrongPassword]
              ELSE [um |-> r.um, user |-> r.user, response |-> Ok]
      [] user.kind = "OnlineGuest" /\ request.type \notin {"Fin", "Login"} ->
           guest_request(um, user, request)
      [] user.kind = "LoggedInUser" /\ request.type = "Ping" ->
           [um |-> um, user |-> user, response |-> Pong(request.message)]
      [] user.kind = "LoggedInUser" /\ request.type = "Declare" ->
           LET r == decalre_dir(um, user, request.directory)
           IN [um |-> r.um, user |-> r.user, response |-> Ok]
      [] user.kind = "LoggedInUser" /\ request.type = "All" ->
           [um |-> um, user |-> user, response |-> get_all_dirs(um)]
      [] user.kind = "LoggedInUser" /\ request.type = "Search" ->
           [um |-> um, user |-> user,
            response |-> search(um, request.search_term)]
      [] user.kind = "LoggedInUser" /\ request.type = "Query" ->
           [um |-> um, user |-> user,
            response |-> query_file(um, request.file_hash)]
      [] user.kind = "LoggedInUser"
         /\ request.type \notin
                {"Fin", "Ping", "Declare", "All", "Search", "Query"} ->
           [um |-> um, user |-> user, response |-> UnrecognizedError]

\* ------------------------------------------------------------ client inputs
Names == {"alice", "bob"}
Passwords == {"p1", "p2"}
\* The hosts clients connect from; two connections can come from one host.
Ips == {"10.0.0.1", "10.0.0.2"}
IpsOf(c) == IF c = 1 THEN {"10.0.0.1"} ELSE Ips
PingTexts == {"Sup!", "yo"}
Hashes == {"h1", "h2", "h9"}

\* docs{read[h1], img{logo[h2]}}
Docs ==
    Directory(<<"d", "o", "c", "s">>,
        << File(<<"r", "e", "a", "d">>, "h1", 10),
           Directory(<<"i", "m", "g">>,
               << File(<<"l", "o", "g", "o">>, "h2", 20) >>) >>)

\* pics{logo[h2], copy[h2], tmp{}}
Pics ==
    Directory(<<"p", "i", "c", "s">>,
        << File(<<"l", "o", "g", "o">>, "h2", 20),
           File(<<"c", "o", "p", "y">>, "h2", 20),
           Directory(<<"t", "m", "p">>, <<>>) >>)

Dirs == {Docs, Pics}
Terms == {<<"o", "g">>, <<"x">>}

\* The frames a client can write before its Fin: every request variant, a
\* server-to-client variant, and bytes that do not decode.
Requests ==
    {Login("alice", p) : p \in Passwords}
    \cup {Login("bob", "p1")}
    \cup {Ping(t) : t \in PingTexts}
    \cup {Declare(d) : d \in Dirs}
    \cup {All}
    \cup {Search(t) : t \in Terms}
    \cup {Query(h) : h \in Hashes}
    \cup {Ok, BadFrame}

\* ------------------------------------------------------------------- codec
\* A byte string is a sequence of elements: a raw byte, a character of
\* UTF-8 text, or the text json.dumps makes of one JSON value.
Byte(n) == [kind |-> "byte", v |-> n]
Char(ch) == [kind |-> "char", v |-> ch]

\* str.encode()
EncodeText(text) == [i \in 1..Len(text) |-> Char(text[i])]

\* What a decoder raises instead of returning.
ValueError == [type |-> "ValueError"]
TypeError == [type |-> "TypeError"]
IsError(x) == x \in {ValueError, TypeError}

\* bytes.decode(): UnicodeDecodeError is a ValueError.
DecodeText(bytes) ==
    IF \A i \in 1..Len(bytes) : bytes[i].kind = "char"
    THEN [i \in 1..Len(bytes) |-> bytes[i].v]
    ELSE ValueError

\* JSON values.
JStr(s) == [j |-> "str", v |-> s]
JInt(n) == [j |-> "int", v |-> n]
JList(items) == [j |-> "list", v |-> items]
JDict(items) == [j |-> "dict", v |-> items]

\* json.dumps(x).encode() and json.loads(data): JSONDecodeError is a
\* ValueError.
JsonDumps(x) == <<[kind |-> "json", v |-> x]>>
JsonLoads(bytes) ==
    IF Len(bytes) = 1 /\ bytes[1].kind = "json" THEN bytes[1].v ELSE ValueError

RECURSIVE to_dict(_)
\* File.to_dict / Directory.to_dict
to_dict(x) ==
    IF x.type = "file"
    THEN JDict(<< <<"type", JStr("file")>>, <<"name", JStr(x.name)>>,
                  <<"hash", JStr(x.hash)>>, <<"size", JInt(x.size)>> >>)
    ELSE JDict(<< <<"type", JStr("directory")>>, <<"name", JStr(x.name)>>,
                  <<"contents",
                    JList([i \in 1..Len(x.contents) |->
                              to_dict(x.contents[i])])>> >>)

\* val[key] on a dict: the value, or KeyError.
KeyError == [type |-> "KeyError"]
Item(val, key) ==
    IF key \in DictKeys(val.v) THEN DictGet(val.v, key) ELSE KeyError

\* filesystem.is_filedict, called on a dict.
is_filedict(val) ==
    /\ Item(val, "type") # KeyError
    /\ Item(val, "name") # KeyError
    /\ Item(val, "hash") # KeyError
    /\ Item(val, "size") # KeyError
    /\ Item(val, "type") = JStr("file")
    /\ Item(val, "name").j = "str"
    /\ Item(val, "hash").j = "str"
    /\ Item(val, "size").j = "int"

\* What iterating a JSON value yields: the items of a list, the keys of a
\* dict, the characters of a string; an int is not iterable (TypeError).
Iterated(val) ==
    CASE val.j = "list" -> val.v
      [] val.j = "dict" -> [i \in 1..Len(val.v) |-> JStr(val.v[i][1])]
      [] val.j = "str" -> [i \in 1..Len(val.v) |-> JStr(<<val.v[i]>>)]
      [] val.j = "int" -> <<>>

RECURSIVE is_directorydict(_)
RECURSIVE AllAreDicts(_)
\* all(is_directorydict(x) or is_filedict(x) for x in contents): "True",
\* "False", or "TypeError" when an x that is not a dict is subscripted.
AllAreDicts(items) ==
    IF items = <<>> THEN "True"
    ELSE LET x == Head(items)
             as_directory == is_directorydict(x)
         IN CASE as_directory = "TypeError" -> "TypeError"
              [] as_directory = "False" /\ ~is_filedict(x) -> "False"
              [] OTHER -> AllAreDicts(Tail(items))

\* filesystem.is_directorydict: only KeyError is caught.
is_directorydict(val) ==
    IF val.j # "dict" THEN "TypeError"
    ELSE IF \E key \in {"type", "name", "contents"} : Item(val, key) = KeyError
    THEN "False"
    ELSE LET items == Iterated(Item(val, "contents"))
             each == IF Item(val, "contents").j = "int" THEN "TypeError"
                     ELSE AllAreDicts(items)
         IN CASE each = "TypeError" -> "TypeError"
              [] /\ each = "True"
                 /\ Item(val, "type") = JStr("directory")
                 /\ Item(val, "name").j = "str"
                 /\ Item(val, "contents").j = "list" -> "True"
              [] OTHER -> "False"

\* A parse that does not descend into the directories of contents.
from_dict_one_level(val) ==
    Directory(Item(val, "name").v,
              [i \in 1..Len(Item(val, "contents").v) |->
                  LET x == Item(val, "contents").v[i]
                  IN IF Item(x, "type") = JStr("file")
                     THEN File(Item(x, "name").v, Item(x, "hash").v,
                               Item(x, "size").v)
                     ELSE Directory(Item(x, "name").v, <<>>)])

RECURSIVE from_dict(_)
\* Directory.from_dict / File.from_dict through
\* _parse_dict_to_file_or_directory.
from_dict(val) ==
    IF Item(val, "type") = JStr("file")
    THEN File(Item(val, "name").v, Item(val, "hash").v, Item(val, "size").v)
    ELSE Directory(Item(val, "name").v,
                   [i \in 1..Len(Item(val, "contents").v) |->
                       from_dict(Item(val, "contents").v[i])])

\* The size in bytes of the command code that starts every message.
COMMAND_SIZE == 1

\* The message classes in the order the module defines them, each with its
\* command class attribute.
MessageClasses ==
    << <<"Login", 30>>, <<"WrongPassword", 19>>, <<"Ping", 10>>,
       <<"Pong", 11>>, <<"All", 20>>, <<"Ok", 1>>, <<"Error", 80>>,
       <<"Declare", 15>>, <<"Search", 40>>, <<"SearchResults", 41>>,
       <<"Fin", 75>>, <<"Query", 43>>, <<"QuerySearchResults", 42>> >>

\* cls.command
CommandOf(cls) == DictGet(MessageClasses, cls)

\* A class definition that takes the code over from the class that has it.
init_subclass_overwrites(reg, cls, command) ==
    [registry |-> DictSet(reg, command, cls), raised |-> "none"]

\* ServerMessage.__init_subclass__ on _registered_message_types: the
\* registry afterwards and what the class statement raised.
init_subclass(reg, cls, command) ==
    IF command \in DictKeys(reg)
    THEN [registry |-> reg, raised |-> "TypeError"]
    ELSE [registry |-> DictSet(reg, command, cls), raised |-> "none"]

RECURSIVE RegisterAll(_, _)
RegisterAll(reg, classes) ==
    IF classes = <<>> THEN reg
    ELSE RegisterAll(init_subclass(reg, Head(classes)[1], Head(classes)[2]).registry,
                     Tail(classes))

\* _registered_message_types once the module is imported.
RegisteredMessageTypes == RegisterAll(<<>>, MessageClasses)

\* The variants whose payload is one encoded string.
TextField(cls) ==
    CASE cls = "Ping" -> "message"
      [] cls = "Pong" -> "message"
      [] cls = "Error" -> "error_text"
      [] cls = "Search" -> "search_term"
      [] cls = "Query" -> "file_hash"
      [] OTHER -> "none"

JUser(u) == JList(<<JStr(u[1]), JStr(u[2])>>)
JDirs(dirs) == JList([i \in 1..Len(dirs) |-> to_dict(dirs[i])])

\* The __bytes__ of each variant after the command code.
Payload(m) ==
    CASE m.type = "Login" ->
            EncodeText(m.username \o <<":">> \o m.password)
      [] m.type = "Ping" -> EncodeText(m.message)
      [] m.type = "Pong" -> EncodeText(m.message)
      [] m.type = "Error" -> EncodeText(m.error_text)
      [] m.type = "Search" -> EncodeText(m.search_term)
      [] m.type = "Query" -> EncodeText(m.file_hash)
      [] m.type = "Declare" -> JsonDumps(to_dict(m.directory))
      [] m.type = "SearchResults" ->
            JsonDumps(JList([i \in 1..Len(m.results) |->
                JList(<<JUser(m.results[i][1]), JDirs(m.results[i][2])>>)]))
      [] m.type = "QuerySearchResults" ->
            JsonDumps(JList([i \in 1..Len(m.results) |-> JUser(m.results[i])]))
      [] OTHER -> <<>>

\* bytes(message)
to_bytes(m) == <<Byte(CommandOf(m.type))>> \o Payload(m)

IsText(bytes) == \A i \in 1..Len(bytes) : bytes[i].kind = "char"

RECURSIVE Split(_)
\* str.split(':')
Split(text) ==
    IF \A i \in 1..Len(text) : text[i] # ":" THEN <<text>>
    ELSE LET i == CHOOSE k \in 1..Len(text) :
                    text[k] = ":" /\ \A l \in 1..(k - 1) : text[l] # ":"
         IN <<SubSeq(text, 1, i - 1)>> \o Split(SubSeq(text, i + 1, Len(text)))

\* Login._from_bytes
LoginFromBytes(bytes) ==
    IF ~IsText(bytes) THEN ValueError
    ELSE LET parts == Split(DecodeText(bytes))
         IN IF Len(parts) # 2 THEN ValueError
            ELSE Login(parts[1], parts[2])

\* Ping, Pong, Error, Search and Query ._from_bytes
TextFromBytes(cls, bytes) ==
    IF ~IsText(bytes) THEN ValueError
    ELSE [type |-> cls] @@ (TextField(cls) :> DecodeText(bytes))

\* Raised by the first of the top-level dicts that is_directorydict
\* rejects or fails on, if any: "ok", "ValueError" or "TypeError".
RECURSIVE DirDictsCheck(_)
DirDictsCheck(items) ==
    IF items = <<>> THEN "ok"
    ELSE IF Head(items).j # "dict" THEN "ValueError"
    ELSE LET conforms == is_directorydict(Head(items))
         IN CASE conforms = "TypeError" -> "TypeError"
              [] conforms = "False" -> "ValueError"
              [] OTHER -> DirDictsCheck(Tail(items))

\* Declare._from_bytes
DeclareFromBytes(bytes) ==
    LET directory_dict == JsonLoads(bytes)
    IN IF directory_dict = ValueError THEN ValueError
       ELSE LET checked == DirDictsCheck(<<directory_dict>>)
            IN CASE checked = "ValueError" -> ValueError
                 [] checked = "TypeError" -> TypeError
                 [] OTHER -> Declare(from_dict(directory_dict))

\* SearchResults._is_entry
is_entry(val) ==
    /\ val.j = "list"
    /\ Len(val.v) >= 2
    /\ val.v[1].j = "list"
    /\ Len(val.v[1].v) >= 2
    /\ val.v[1].v[1].j = "str"
    /\ val.v[1].v[2].j = "str"
    /\ val.v[2].j = "list"

RECURSIVE SearchResultsEntries(_, _)
\* The loop of SearchResults._from_bytes over the parsed entries.
SearchResultsEntries(entries, results) ==
    IF entries = <<>> THEN SearchResults(results)
    ELSE LET entry == Head(entries)
         IN IF ~is_entry(entry) THEN ValueError
            ELSE IF Len(entry.v) # 2 \/ Len(entry.v[1].v) # 2 THEN ValueError
            ELSE LET checked == DirDictsCheck(entry.v[2].v)
                     user == User(entry.v[1].v[1].v, entry.v[1].v[2].v)
                     dirs == [i \in 1..Len(entry.v[2].v) |->
                                 from_dict(entry.v[2].v[i])]
                 IN CASE checked = "ValueError" -> ValueError
                      [] checked = "TypeError" -> TypeError
                      [] OTHER -> SearchResultsEntries(Tail(entries),
                                      DictSet(results, user, dirs))

\* SearchResults._from_bytes
SearchResultsFromBytes(bytes) ==
    LET parsed == JsonLoads(bytes)
    IN IF parsed = ValueError THEN ValueError
       ELSE IF parsed.j # "list" THEN ValueError
       ELSE SearchResultsEntries(parsed.v, <<>>)

\* QuerySearchResults._is_list_of_lists_of_two_strings
is_list_of_lists_of_two_strings(val) ==
    /\ val.j = "list"
    /\ \A i \in 1..Len(val.v) :
          /\ val.v[i].j = "list"
          /\ Len(val.v[i].v) >= 2
          /\ val.v[i].v[1].j = "str"
          /\ val.v[i].v[2].j = "str"

\* QuerySearchResults._from_bytes
QuerySearchResultsFromBytes(bytes) ==
    LET parsed == JsonLoads(bytes)
    IN IF parsed = ValueError THEN ValueError
       ELSE IF ~is_list_of_lists_of_two_strings(parsed) THEN ValueError
       ELSE IF \E i \in 1..Len(parsed.v) : Len(parsed.v[i].v) # 2
       THEN ValueError
       ELSE QuerySearchResults([i \in 1..Len(parsed.v) |->
                User(parsed.v[i].v[1].v, parsed.v[i].v[2].v)])

\* cls._from_bytes(message_data); a class that does not override it
\* ignores the data and returns cls().
variant_from_bytes(cls, bytes) ==
    CASE cls = "Login" -> LoginFromBytes(bytes)
      [] TextField(cls) # "none" -> TextFromBytes(cls, bytes)
      [] cls = "Declare" -> DeclareFromBytes(bytes)
      [] cls = "SearchResults" -> SearchResultsFromBytes(bytes)
      [] cls = "QuerySearchResults" -> QuerySearchResultsFromBytes(bytes)
      [] OTHER -> [type |-> cls]

\* ServerMessage.from_bytes: the message, or the exception it raises.
from_bytes(reg, bytes) ==
    IF bytes = <<>> THEN ValueError
    ELSE IF bytes[1].v \notin DictKeys(reg) THEN ValueError
    ELSE variant_from_bytes(DictGet(reg, bytes[1].v), SubSeq(bytes, COMMAND_SIZE + 1, Len(bytes)))

\* ------------------------------------------------------------------- state
VARIABLES
    user_manager,   \* Processor.user_manager: the four lists
    user,           \* _handle_client's local `user`, per connection
    hpc,            \* where the connection's _handle_client task is
    requests,       \* the connection's request queue
    responses,      \* the connection's response queue
    netpc,          \* where the connection's _handle_new_client is
    addr,           \* the connection's peername, <<ip, port>>
    wire_in,        \* what the client has written and the server not yet read
    cpc,            \* where the client is
    nconnects,      \* connections accepted so far
    nrequests       \* requests written so far

server_vars == <<user_manager, user, hpc, requests, responses, netpc, addr,
                 wire_in, cpc, nconnects, nrequests>>

\* The protocol library on its own: one message through the codec
\* (protocol/messages.py) and one connection of tcp_network.Session.
VARIABLES
    registry,       \* ServerMessage._registered_message_types
    raised,         \* what the last class definition raised
    message,        \* the message given to bytes()
    data,           \* the bytes given to from_bytes
    decoded,        \* what from_bytes returned or raised
    codec_pc,       \* where the codec run is
    sent,           \* the byte strings given to Session.send, in order
    stream,         \* the bytes written and not yet read by the peer
    received,       \* the byte strings Session.receive has returned
    rx,             \* the receive call in progress
    eof,            \* the sending side has closed its writer
    sess,           \* the Session object at each end of each connection
    pipe,           \* the frames each end has written and its peer not read
    failed,         \* the connections whose transport raises OSError
    handed,         \* what each Session was given to send, in order
    taken,          \* what each Session's receive calls have returned
    ncalls,         \* how many Session methods have been called
    fs_dir,         \* the Directory a filesystem method is called on
    fs_term,        \* the search term
    fs_out,         \* what the method returned
    fs_pc           \* which filesystem method has run

codec_vars == <<registry, raised, message, data, decoded, codec_pc>>

tcp_vars == <<sent, stream, received, rx, eof>>

session_vars == <<sess, pipe, failed, handed, taken, ncalls>>

fs_vars == <<fs_dir, fs_term, fs_out, fs_pc>>

lib_vars == <<codec_vars, tcp_vars, session_vars, fs_vars>>

vars == <<server_vars, lib_vars>>

NoUser == [kind |-> "NoUser"]
NoAddr == <<"", 0>>

\* No receive call is running.
RxIdle == [pc |-> "idle", size |-> 0, chunk_size |-> 0, msg |-> <<>>]

\* The codec with the module imported and nothing encoded or decoded.
CodecIdle ==
    /\ registry = RegisteredMessageTypes
    /\ raised = "none"
    /\ message = None
    /\ data = <<>>
    /\ decoded = None
    /\ codec_pc = "idle"

\* A connection nothing was written to.
TcpIdle ==
    /\ sent = <<>>
    /\ stream = <<>>
    /\ received = <<>>
    /\ rx = RxIdle
    /\ eof = FALSE

\* The connections of the Session runs and the two ends of each.
Conns == {1, 2}
SessionIds == Conns \X {"client", "server"}

\* No Session object exists at this end yet.
NoSession ==
    [cls |-> "none", is_closed |-> FALSE, writer_closed |-> FALSE,
     raised |-> "none", touched |-> FALSE]

\* No connection has been made.
SessionIdle ==
    /\ sess = [s \in SessionIds |-> NoSession]
    /\ pipe = [s \in SessionIds |-> <<>>]
    /\ failed = [c \in Conns |-> FALSE]
    /\ handed = [s \in SessionIds |-> <<>>]
    /\ taken = [s \in SessionIds |-> <<>>]
    /\ ncalls = 0

\* No filesystem method has been called.
FsIdle ==
    /\ fs_dir = None
    /\ fs_term = <<>>
    /\ fs_out = None
    /\ fs_pc = "idle"

ServerInit ==
    /\ user_manager = UserManagerInit
    /\ user = [c \in Slots |-> NoUser]
    /\ hpc = [c \in Slots |-> "none"]
    /\ requests = [c \in Slots |-> <<>>]
    /\ responses = [c \in Slots |-> <<>>]
    /\ netpc = [c \in Slots |-> "idle"]
    /\ addr = [c \in Slots |-> NoAddr]
    /\ wire_in = [c \in Slots |-> <<>>]
    /\ cpc = [c \in Slots |-> "idle"]
    /\ nconnects = 0
    /\ nrequests = 0

Init ==
    /\ ServerInit
    /\ CodecIdle
    /\ TcpIdle
    /\ SessionIdle
    /\ FsIdle

\* A slot is free before its first connection and again once the client has
\* gone and both server tasks of the previous connection have returned.
SlotFree(c) ==
    /\ cpc[c] \in {"idle", "closed"}
    /\ netpc[c] \in {"idle", "finished"}
    /\ hpc[c] \in {"none", "done"}

\* ------------------------------------------------------------------ client
\* A client connects and the server's accept callback starts: a Session is
\* made for the new peer. No two open connections share a peername.
Connect(c, ip) ==
    /\ SlotFree(c)
    /\ ip \in IpsOf(c)
    /\ nconnects < MaxConnects
    /\ nconnects' = nconnects + 1
    /\ addr' = [addr EXCEPT ![c] = <<ip, c>>]
    /\ cpc' = [cpc EXCEPT ![c] = "ready"]
    /\ netpc' = [netpc EXCEPT ![c] = "add_client"]
    /\ hpc' = [hpc EXCEPT ![c] = "none"]
    /\ user' = [user EXCEPT ![c] = NoUser]
    /\ requests' = [requests EXCEPT ![c] = <<>>]
    /\ responses' = [responses EXCEPT ![c] = <<>>]
    /\ wire_in' = [wire_in EXCEPT ![c] = <<>>]
    /\ UNCHANGED <<user_manager, nrequests>>
    /\ UNCHANGED lib_vars

\* ClientSession._send_message_get_response: send_message, then the wait in
\* read_message for the response.
ClientSend(c, m) ==
    /\ cpc[c] = "ready"
    /\ nrequests < MaxRequests
    /\ nrequests' = nrequests + 1
    /\ wire_in' = [wire_in EXCEPT ![c] = Append(@, m)]
    /\ cpc' = [cpc EXCEPT ![c] = "waiting"]
    /\ UNCHANGED <<user_manager, user, hpc, requests, responses, netpc, addr,
                   nconnects>>
    /\ UNCHANGED lib_vars

\* ClientSession.__aexit__ -> Session.disconnect: Fin, then close.
ClientDisconnect(c) ==
    /\ cpc[c] = "ready"
    /\ wire_in' = [wire_in EXCEPT ![c] = Append(@, Fin)]
    /\ cpc' = [cpc EXCEPT ![c] = "closed"]
    /\ UNCHANGED <<user_manager, user, hpc, requests, responses, netpc, addr,
                   nconnects, nrequests>>
    /\ UNCHANGED lib_vars

\* What the server's read gives once the transport has failed.
ConnectionError == [type |-> "ConnectionError"]

\* The transport fails (reset, peer killed): no Fin is written.
TransportFail(c) ==
    /\ cpc[c] \in {"ready", "waiting"}
    /\ wire_in' = [wire_in EXCEPT ![c] = Append(@, ConnectionError)]
    /\ cpc' = [cpc EXCEPT ![c] = "closed"]
    /\ UNCHANGED <<user_manager, user, hpc, requests, responses, netpc, addr,
                   nconnects, nrequests>>
    /\ UNCHANGED lib_vars

\* --------------------------------------------------------------- Processor
\* Processor.add_client up to its yield, with the handler task left running
\* in the background: the queues are made, the task is created, and the
\* connection loop receives the queues.
AddClient(c) ==
    /\ netpc[c] = "add_client"
    /\ requests' = [requests EXCEPT ![c] = <<>>]
    /\ responses' = [responses EXCEPT ![c] = <<>>]
    /\ hpc' = [hpc EXCEPT ![c] = "start"]
    /\ netpc' = [netpc EXCEPT ![c] = "read"]
    /\ UNCHANGED <<user_manager, user, addr, wire_in, cpc, nconnects,
                   nrequests>>
    /\ UNCHANGED lib_vars

\* Processor.add_client as written: `await asyncio.create_task(...)` creates
\* the task and waits for it to return.
AddClientAwait(c) ==
    /\ netpc[c] = "add_client"
    /\ requests' = [requests EXCEPT ![c] = <<>>]
    /\ responses' = [responses EXCEPT ![c] = <<>>]
    /\ hpc' = [hpc EXCEPT ![c] = "start"]
    /\ netpc' = [netpc EXCEPT ![c] = "await_task"]
    /\ UNCHANGED <<user_manager, user, addr, wire_in, cpc, nconnects,
                   nrequests>>
    /\ UNCHANGED lib_vars

\* ... and yields the queues once the awaited task has returned.
AddClientYield(c) ==
    /\ netpc[c] = "await_task"
    /\ hpc[c] = "done"
    /\ netpc' = [netpc EXCEPT ![c] = "read"]
    /\ UNCHANGED <<user_manager, user, hpc, requests, responses, addr,
                   wire_in, cpc, nconnects, nrequests>>
    /\ UNCHANGED lib_vars

\* Processor._handle_client before its loop: the guest is created.
HandleClientStart(c) ==
    /\ hpc[c] = "start"
    /\ LET r == create_guest(user_manager, addr[c])
       IN /\ user_manager' = r.um
          /\ user' = [user EXCEPT ![c] = r.user]
    /\ hpc' = [hpc EXCEPT ![c] = "wait"]
    /\ UNCHANGED <<requests, responses, netpc, addr, wire_in, cpc, nconnects,
                   nrequests>>
    /\ UNCHANGED lib_vars

\* A test of the new state that knows the guests' terminal state only.
DisconnectedGuestOnly(u) == u.kind = "OfflineGuest"

Disconnected(u) == u.kind \in {"OfflineGuest", "LoggedOutUser"}

\* A turn of the loop in which Search filters the declared directories
\* themselves instead of building its result beside them.
HandleClientSearchInPlace(c) ==
    /\ hpc[c] = "wait"
    /\ requests[c] # <<>>
    /\ LET request == Head(requests[c])
           r == handle_request(user_manager, user[c], request)
           Filtered(u) ==
               IF u.kind = "LoggedInUser" /\ user[c].kind = "LoggedInUser"
                  /\ request.type = "Search"
               THEN [u EXCEPT !.declared_dirs =
                        SearchedDirectories(@, request.search_term)]
               ELSE u
       IN /\ user_manager' =
                 [r.um EXCEPT !.logged_in_users =
                     [i \in 1..Len(@) |-> Filtered(@[i])]]
          /\ user' = [d \in Slots |->
                         IF d = c THEN Filtered(r.user) ELSE Filtered(user[d])]
          /\ IF Disconnected(r.user)
             THEN /\ hpc' = [hpc EXCEPT ![c] = "done"]
                  /\ UNCHANGED responses
             ELSE /\ hpc' = hpc
                  /\ responses' = [responses EXCEPT ![c] = Append(@, r.response)]
    /\ requests' = [requests EXCEPT ![c] = Tail(@)]
    /\ UNCHANGED <<netpc, addr, wire_in, cpc, nconnects, nrequests>>
    /\ UNCHANGED lib_vars

\* One turn of Processor._handle_client's loop. Nothing in it suspends
\* between requests.get() returning and the next requests.get().
HandleClient(c) ==
    /\ hpc[c] = "wait"
    /\ requests[c] # <<>>
    /\ LET r == handle_request(user_manager, user[c], Head(requests[c]))
       IN /\ user_manager' = r.um
          /\ user' = [user EXCEPT ![c] = r.user]
          /\ IF Disconnected(r.user)
             THEN /\ hpc' = [hpc EXCEPT ![c] = "done"]
                  /\ UNCHANGED responses
             ELSE /\ hpc' = hpc
                  /\ responses' = [responses EXCEPT ![c] = Append(@, r.response)]
    /\ requests' = [requests EXCEPT ![c] = Tail(@)]
    /\ UNCHANGED <<netpc, addr, wire_in, cpc, nconnects, nrequests>>
    /\ UNCHANGED lib_vars

\* ------------------------------------------------------- Server (network.py)
\* Leaving `async with add_client(...)`, by break or by an exception:
\* add_client's finally puts Fin on the request queue, _handle_new_client
\* returns and the connection is dropped.
LeaveLoop(c) ==
    /\ requests' = [requests EXCEPT ![c] = Append(@, Fin)]
    /\ netpc' = [netpc EXCEPT ![c] = "finished"]
    /\ cpc' = [cpc EXCEPT ![c] = "closed"]
    /\ wire_in' = [wire_in EXCEPT ![c] = <<>>]

\* What one read_message can give: a request, the client's Fin, bytes that
\* from_bytes rejects (ValueError), or a ConnectionError.
Frames == Requests \cup {Fin, ConnectionError}

\* The frame read_message returns: the oldest one the client has written, or,
\* when the server waits in the read first, the one the client writes next.
Readable(c) == IF wire_in[c] # <<>> THEN {Head(wire_in[c])} ELSE Frames

\* A loop that goes back to read_message without waiting for the response.
NetReadNoWait(c, frame) ==
    /\ netpc[c] = "read"
    /\ frame \in Readable(c)
    /\ \/ /\ frame \in Requests \ {BadFrame}
          /\ wire_in[c] = <<>> => nrequests < MaxRequests
          /\ nrequests' = IF wire_in[c] = <<>> THEN nrequests + 1 ELSE nrequests
          /\ requests' = [requests EXCEPT ![c] = Append(@, frame)]
          /\ wire_in' = [wire_in EXCEPT ![c] = IF @ = <<>> THEN @ ELSE Tail(@)]
          /\ UNCHANGED <<netpc, cpc>>
       \/ /\ frame \in {Fin, BadFrame, ConnectionError}
          /\ LeaveLoop(c)
          /\ UNCHANGED nrequests
    /\ UNCHANGED <<user_manager, user, hpc, responses, addr, nconnects>>
    /\ UNCHANGED lib_vars

\* The top of Server._handle_new_client's loop: read_message, then the put.
NetRead(c, frame) ==
    /\ netpc[c] = "read"
    /\ frame \in Readable(c)
    /\ \/ /\ frame \in Requests \ {BadFrame}
          /\ wire_in[c] = <<>> => nrequests < MaxRequests
          /\ nrequests' = IF wire_in[c] = <<>> THEN nrequests + 1 ELSE nrequests
          /\ requests' = [requests EXCEPT ![c] = Append(@, frame)]
          /\ netpc' = [netpc EXCEPT ![c] = "get_response"]
          /\ cpc' = [cpc EXCEPT ![c] = "waiting"]
          /\ wire_in' = [wire_in EXCEPT ![c] = IF @ = <<>> THEN @ ELSE Tail(@)]
       \/ /\ frame = Fin
          /\ LeaveLoop(c)
          /\ UNCHANGED nrequests
       \/ \* the ValueError is not caught by the loop
          /\ frame = BadFrame
          /\ LeaveLoop(c)
          /\ UNCHANGED nrequests
       \/ /\ frame = ConnectionError
          /\ LeaveLoop(c)
          /\ UNCHANGED nrequests
    /\ UNCHANGED <<user_manager, user, hpc, responses, addr, nconnects>>
    /\ UNCHANGED lib_vars

\* The rest of the loop: response_queue.get(), then send_message, which
\* writes the response to the waiting client or raises ConnectionError.
NetSendResponse(c) ==
    /\ netpc[c] = "get_response"
    /\ responses[c] # <<>>
    /\ responses' = [responses EXCEPT ![c] = Tail(@)]
    /\ \/ /\ netpc' = [netpc EXCEPT ![c] = "read"]
          /\ cpc' = [cpc EXCEPT ![c] = "ready"]
          /\ UNCHANGED <<requests, wire_in>>
       \/ LeaveLoop(c)
    /\ UNCHANGED <<user_manager, user, hpc, addr, nconnects, nrequests>>
    /\ UNCHANGED lib_vars

\* ---------------------------------------------------------- specifications
\* The handler tasks run beside the connection loops; each read draws the
\* client's next frame.
Next ==
    \E c \in Slots :
        \/ \E ip \in Ips : Connect(c, ip)
        \/ AddClient(c)
        \/ HandleClientStart(c)
        \/ HandleClient(c)
        \/ \E frame \in Frames : NetRead(c, frame)
        \/ NetSendResponse(c)

Spec == Init /\ [][Next]_vars

\* Every step the server can take for a connection.
ServerStep(c) ==
    \/ AddClientAwait(c)
    \/ AddClientYield(c)
    \/ HandleClientStart(c)
    \/ HandleClient(c)
    \/ \E frame \in Frames : NetRead(c, frame)
    \/ NetSendResponse(c)

\* add_client as written, with clients that write, disconnect and fail. The
\* steps of ServerStep left out of ServerNext are never enabled here
\* (ServerLoopNeverEntered).
ServerNext ==
    \E c \in Slots :
        \/ \E ip \in Ips : Connect(c, ip)
        \/ \E m \in Requests : ClientSend(c, m)
        \/ ClientDisconnect(c)
        \/ TransportFail(c)
        \/ AddClientAwait(c)
        \/ HandleClientStart(c)

ServerSpec == Init /\ [][ServerNext]_vars

\* The event loop runs every task that can run.
FairServerSpec ==
    ServerSpec /\ \A c \in Slots : WF_vars(ServerStep(c))

\* Under ServerSpec no connection reaches its read loop and no handler task
\* is given a request.
ServerLoopNeverEntered ==
    \A c \in Slots :
        /\ netpc[c] \in {"idle", "add_client", "await_task"}
        /\ requests[c] = <<>>
        /\ ~ENABLED AddClientYield(c)
        /\ ~ENABLED HandleClient(c)
        /\ ~ENABLED NetSendResponse(c)
        /\ \A frame \in Frames : ~ENABLED NetRead(c, frame)

\* ------------------------------------------------------------- properties
Range(seq) == {seq[i] : i \in 1..Len(seq)}

\* The account records the manager holds under a name.
Accounts(um, name) ==
    {u \in Range(um.logged_in_users) \cup Range(um.logged_out_users) :
        u.name = name}

\* The handler of connection c processes a Login sent by a guest.
GuestLogin(c) ==
    /\ HandleClient(c)
    /\ user[c].kind = "OnlineGuest"
    /\ Head(requests[c]).type = "Login"

\* The response the handler of connection c puts in this step.
Answered(c, m) == responses'[c] = Append(responses[c], m)

\* The handler's user is the record the manager removes on the next
\* transition: list.remove never raises ValueError.
HandlerUserIsRecorded ==
    \A c \in Slots :
        hpc[c] = "wait" =>
            /\ user[c].kind = "OnlineGuest" =>
                   user[c] \in Range(user_manager.online_guests)
            /\ user[c].kind = "LoggedInUser" =>
                   user[c] \in Range(user_manager.logged_in_users)

\* C1: a guest's Login(name, pw) with no account record of that name is
\* answered Ok, the connection becomes LoggedInUser(addr, name, pw) with no
\* declared directories, and the guest leaves the online guests.
C1_FreshLoginRegisters ==
    [][\A c \in Slots :
          (GuestLogin(c)
           /\ Accounts(user_manager, Head(requests[c]).username) = {}) =>
              LET m == Head(requests[c])
                  registered ==
                      LoggedInUser(addr[c], m.username, m.password, <<>>)
              IN /\ Answered(c, Ok)
                 /\ user'[c] = registered
                 /\ registered \in Range(user_manager'.logged_in_users)
                 /\ user[c] \notin Range(user_manager'.online_guests)]_vars

\* The only connection so far has registered and its Ok is queued.
C1_Witness ==
    \E c \in Slots :
        /\ nconnects = 1
        /\ user[c].kind = "LoggedInUser"
        /\ user[c].declared_dirs = <<>>
        /\ responses[c] = <<Ok>>
        /\ user_manager.logged_in_users = <<user[c]>>
        /\ user_manager.online_guests = <<>>

\* C2: a Login(name, p) is answered Ok only if no account of that name
\* existed before it or p is the password the name is registered with;
\* otherwise it is answered WrongPassword.
C2_OkOnlyForNewNameOrRightPassword ==
    [][\A c \in Slots :
          GuestLogin(c) =>
              LET m == Head(requests[c])
                  held == Accounts(user_manager, m.username)
              IN IF \E u \in held : u.password # m.password
                 THEN Answered(c, WrongPassword)
                 ELSE Answered(c, Ok)]_vars

\* C3: a guest's Login under the name of a logged-out account whose password
\* differs is answered WrongPassword, the connection stays a guest, and the
\* account and all four lists are unchanged.
C3_WrongPasswordChangesNothing ==
    [][\A c \in Slots :
          (GuestLogin(c)
           /\ \E u \in Range(user_manager.logged_out_users) :
                  /\ u.name = Head(requests[c]).username
                  /\ u.password # Head(requests[c]).password) =>
              /\ Answered(c, WrongPassword)
              /\ user'[c] = user[c]
              /\ user_manager' = user_manager]_vars

\* C4: the account of a user whose connection ended stays a LoggedOutUser
\* until it is logged into: a later Login with its name and password is
\* answered Ok, the connection becomes a LoggedInUser, and the record is
\* consumed.
C4_LoggedOutAccountLogsBackIn ==
    [][/\ \A c \in Slots :
             (HandleClient(c) /\ user[c].kind = "LoggedInUser"
              /\ Head(requests[c]).type = "Fin") =>
                 LoggedOutUser(user[c].name, user[c].password)
                     \in Range(user_manager'.logged_out_users)
       /\ \A c \in Slots :
             LET account == LoggedOutUser(Head(requests[c]).username,
                                          Head(requests[c]).password)
             IN (GuestLogin(c)
                 /\ account \in Range(user_manager.logged_out_users)) =>
                    /\ Answered(c, Ok)
                    /\ user'[c] = LoggedInUser(addr[c], account.name,
                                               account.password, <<>>)
                    /\ user_manager'.logged_out_users =
                           ListRemove(user_manager.logged_out_users, account)
       /\ \A u \in Range(user_manager.logged_out_users) :
             u \in Range(user_manager'.logged_out_users)
             \/ \E c \in Slots :
                    /\ GuestLogin(c)
                    /\ Head(requests[c]).username = u.name
                    /\ Head(requests[c]).password = u.password]_vars

\* C5: a guest's request other than Login and Fin is answered with the
\* unregistered-user Error and changes no user state and no declared
\* directories; no request of a guest is answered Pong, SearchResults or
\* QuerySearchResults.
C5_GuestMayOnlyLogin ==
    [][\A c \in Slots :
          (HandleClient(c) /\ user[c].kind = "OnlineGuest") =>
              /\ Head(requests[c]).type \notin {"Login", "Fin"} =>
                     /\ Answered(c, GuestError)
                     /\ user' = user
                     /\ user_manager' = user_manager
              /\ \A m \in Range(responses'[c]) :
                     m.type \notin
                         {"Pong", "SearchResults", "QuerySearchResults"}]_vars

\* A guest has sent something else than Login and the Error is queued, while
\* a logged-in user has declared a directory.
C5_Witness ==
    \E c \in Slots :
        /\ user[c].kind = "OnlineGuest"
        /\ responses[c] = <<GuestError>>
        /\ \E d \in Slots \ {c} :
               /\ user[d].kind = "LoggedInUser"
               /\ user[d].declared_dirs # <<>>

\* The client of connection c has sent a well-formed request and waits for
\* its response.
AwaitsResponse(c) ==
    /\ cpc[c] = "waiting"
    /\ wire_in[c] # <<>> => Head(wire_in[c]) \in Requests \ {BadFrame}

\* C6: every request a client sends on a healthy transport is eventually
\* dispatched and answered: a client that waits for a response does not wait
\* forever.
C6_RequestIsEventuallyAnswered ==
    \A c \in Slots : AwaitsResponse(c) ~> (cpc[c] # "waiting")

C8_EndedConnectionIsDisconnected ==
    \A c \in Slots : (cpc[c] = "closed") ~> (hpc[c] = "done")

\* Spec under the same event loop: every server step that can run does.
FairSpec ==
    Spec /\ \A c \in Slots :
                WF_vars(AddClient(c) \/ HandleClientStart(c)
                        \/ HandleClient(c) \/ NetSendResponse(c))

\* With the handler task running beside the loop (FairSpec) a waiting client
\* is answered and an ended connection is disconnected: what fails under
\* FairServerSpec fails through add_client's await alone.
BackgroundHandlerAnswers ==
    \A c \in Slots : (cpc[c] = "waiting") ~> (cpc[c] # "waiting")

BackgroundHandlerDisconnects ==
    \A c \in Slots : (cpc[c] = "closed") ~> (hpc[c] = "done")

\* What the queries show of one logged-in user.
ShownInAll(um, u) ==
    LET results == get_all_dirs(um).results
    IN /\ to_tuple(u) \in DictKeys(results)
       /\ DictGet(results, to_tuple(u)) = u.declared_dirs

ShownInSearch(um, u, term) ==
    LET results == search(um, term).results
    IN /\ to_tuple(u) \in DictKeys(results)
       /\ DictGet(results, to_tuple(u)) =
              SearchedDirectories(u.declared_dirs, term)

RECURSIVE HashesUnder(_)
\* The hashes of the files at any depth of a directory.
HashesUnder(x) ==
    IF x.type = "file" THEN {x.hash}
    ELSE UNION {HashesUnder(x.contents[i]) : i \in 1..Len(x.contents)}

Declares(u, hash) ==
    \E i \in 1..Len(u.declared_dirs) : hash \in HashesUnder(u.declared_dirs[i])

\* C9: the disconnect of one connection leaves every other connection's user
\* and declared directories as they were; another logged-in connection can
\* still Ping and be answered Pong, and what All, Search and Query showed of
\* its declarations they still show.
C9_DisconnectLeavesOthersAlone ==
    [][\A c \in Slots :
          (HandleClient(c) /\ Disconnected(user'[c])) =>
              \A d \in Slots \ {c} :
                  /\ user'[d] = user[d]
                  /\ hpc'[d] = hpc[d]
                  /\ requests'[d] = requests[d]
                  /\ responses'[d] = responses[d]
                  /\ (user[d].kind = "OnlineGuest" /\ hpc[d] = "wait") =>
                         user[d] \in Range(user_manager'.online_guests)
                  /\ (user[d].kind = "LoggedInUser" /\ hpc[d] = "wait") =>
                         /\ user[d] \in Range(user_manager'.logged_in_users)
                         /\ \A t \in PingTexts :
                                handle_request(user_manager', user'[d],
                                               Ping(t)).response = Pong(t)
                         /\ ShownInAll(user_manager, user[d]) =>
                                ShownInAll(user_manager', user[d])
                         /\ \A t \in Terms :
                                ShownInSearch(user_manager, user[d], t) =>
                                    ShownInSearch(user_manager', user[d], t)
                         /\ \A h \in Hashes :
                                Declares(user[d], h) =>
                                    to_tuple(user[d]) \in Range(
                                        query_file(user_manager', h).results)
      ]_vars

\* One user has logged out; another one, with a declared directory, is
\* still in logged_in_users and the Pong to its Ping is queued.
C9_Witness ==
    \E c \in Slots : \E d \in Slots \ {c} :
        /\ user[c].kind = "LoggedOutUser"
        /\ hpc[c] = "done"
        /\ user[d].kind = "LoggedInUser"
        /\ user[d].declared_dirs # <<>>
        /\ user[d] \in Range(user_manager.logged_in_users)
        /\ \E t \in PingTexts : responses[d] = <<Pong(t)>>

RECURSIVE FilesUnder(_)
\* The files at any depth of a directory.
FilesUnder(x) ==
    IF x.type = "file" THEN {x}
    ELSE UNION {FilesUnder(x.contents[i]) : i \in 1..Len(x.contents)}

\* Every substring of a name, the empty one included.
Substrings(name) ==
    {SubSeq(name, i, j) : i \in 1..(Len(name) + 1), j \in 0..Len(name)}

\* The search results list, under the user's key, a subtree of directory d
\* that holds file f.
ListedWithFile(response, u, d, f) ==
    /\ response.type = "SearchResults"
    /\ to_tuple(u) \in DictKeys(response.results)
    /\ \E k \in 1..Len(DictGet(response.results, to_tuple(u))) :
           LET found == DictGet(response.results, to_tuple(u))[k]
           IN /\ found.name = d.name
              /\ f \in FilesUnder(found)
              /\ FilesUnder(found) \subseteq FilesUnder(d)

\* No other logged-in user has the user's name and ip.
KeyIsOwn(um, u) ==
    \A i \in 1..Len(um.logged_in_users) :
        to_tuple(um.logged_in_users[i]) = to_tuple(u) =>
            um.logged_in_users[i].addr = u.addr

C12_AllMapsEveryLoggedInUser ==
    \A e \in Slots :
        user[e].kind = "LoggedInUser" =>
            LET response == handle_request(user_manager, user[e], All).response
            IN /\ response.type = "SearchResults"
               /\ DictKeys(response.results) =
                      {to_tuple(u) : u \in Range(user_manager.logged_in_users)}
               /\ \A c \in Slots :
                      user[c].kind = "LoggedInUser" =>
                          DictGet(response.results, to_tuple(user[c]))
                              = user[c].declared_dirs

\* The same for the users whose name and ip no other logged-in user has.
AllMapsUsersWhoseKeyIsOwn ==
    \A e \in Slots :
        user[e].kind = "LoggedInUser" =>
            LET response == handle_request(user_manager, user[e], All).response
            IN /\ response.type = "SearchResults"
               /\ DictKeys(response.results) =
                      {to_tuple(u) : u \in Range(user_manager.logged_in_users)}
               /\ \A c \in Slots :
                      (user[c].kind = "LoggedInUser"
                       /\ KeyIsOwn(user_manager, user[c])) =>
                          DictGet(response.results, to_tuple(user[c]))
                              = user[c].declared_dirs

\* The terms the search properties are checked for.
SearchTerms == Terms \cup {<<>>, <<"i", "m", "g">>, <<"c", "s">>}

\* The non-None results of Directory.search over a list of directories.
Matches(dirs, term) ==
    SelectSeq([i \in 1..Len(dirs) |-> DirSearch(dirs[i], term)],
              LAMBDA found : found # None)

\* C13: Search(term) is answered with a SearchResults that holds, for each
\* logged-in user, exactly the non-None results of Directory.search(term)
\* over the user's declared directories, and does not hold a user none of
\* whose directories match; it is empty when nothing matches for any user.
C13_SearchKeepsMatchesPerUser ==
    \A e \in Slots :
        user[e].kind = "LoggedInUser" =>
            \A t \in SearchTerms :
                LET response ==
                        handle_request(user_manager, user[e], Search(t)).response
                IN /\ response.type = "SearchResults"
                   /\ DictKeys(response.results) \subseteq
                          {to_tuple(u) :
                              u \in Range(user_manager.logged_in_users)}
                   /\ \A c \in Slots :
                          user[c].kind = "LoggedInUser" =>
                              IF Matches(user[c].declared_dirs, t) = <<>>
                              THEN to_tuple(user[c])
                                       \notin DictKeys(response.results)
                              ELSE /\ to_tuple(user[c])
                                          \in DictKeys(response.results)
                                   /\ DictGet(response.results,
                                              to_tuple(user[c]))
                                          = Matches(user[c].declared_dirs, t)
                   /\ (\A u \in Range(user_manager.logged_in_users) :
                           Matches(u.declared_dirs, t) = <<>>) =>
                          response = SearchResults(<<>>)

\* The same for the users whose name and ip no other logged-in user has.
SearchKeepsMatchesOfUsersWhoseKeyIsOwn ==
    \A e \in Slots :
        user[e].kind = "LoggedInUser" =>
            \A t \in SearchTerms :
                LET response ==
                        handle_request(user_manager, user[e], Search(t)).response
                IN /\ response.type = "SearchResults"
                   /\ DictKeys(response.results) \subseteq
                          {to_tuple(u) :
                              u \in Range(user_manager.logged_in_users)}
                   /\ \A c \in Slots :
                          (user[c].kind = "LoggedInUser"
                           /\ KeyIsOwn(user_manager, user[c])) =>
                              IF Matches(user[c].declared_dirs, t) = <<>>
                              THEN to_tuple(user[c])
                                       \notin DictKeys(response.results)
                              ELSE /\ to_tuple(user[c])
                                          \in DictKeys(response.results)
                                   /\ DictGet(response.results,
                                              to_tuple(user[c]))
                                          = Matches(user[c].declared_dirs, t)
                   /\ (\A u \in Range(user_manager.logged_in_users) :
                           Matches(u.declared_dirs, t) = <<>>) =>
                          response = SearchResults(<<>>)

\* C14: a Query for a hash that no logged-in user has declared is answered
\* with an empty QuerySearchResults, never with an Error, and the handler
\* keeps running with everything unchanged.
C14_UnknownHashIsEmptyResult ==
    [][\A c \in Slots :
          (HandleClient(c) /\ user[c].kind = "LoggedInUser"
           /\ Head(requests[c]).type = "Query"
           /\ \A u \in Range(user_manager.logged_in_users) :
                  ~Declares(u, Head(requests[c]).file_hash)) =>
              /\ Answered(c, QuerySearchResults(<<>>))
              /\ hpc'[c] = "wait"
              /\ user' = user
              /\ user_manager' = user_manager]_vars

\* While a user has declared directories, another user's Query for a hash
\* in none of them has been answered with the empty result.
C14_Witness ==
    \E c \in Slots : \E d \in Slots \ {c} :
        /\ user[c].kind = "LoggedInUser"
        /\ hpc[c] = "wait"
        /\ responses[c] = <<QuerySearchResults(<<>>)>>
        /\ user[d].kind = "LoggedInUser"
        /\ user[d].declared_dirs # <<>>

\* The shared lists hold exactly the users of the running handlers: one
\* record per handler, the record being the handler's user with every
\* directory it has declared.
IndexMatchesHandlers ==
    /\ \A c \in Slots :
           hpc[c] = "wait" =>
               \/ /\ user[c].kind = "OnlineGuest"
                  /\ user[c] \in Range(user_manager.online_guests)
               \/ /\ user[c].kind = "LoggedInUser"
                  /\ user[c] \in Range(user_manager.logged_in_users)
    /\ Len(user_manager.online_guests) + Len(user_manager.logged_in_users)
           = Cardinality({c \in Slots : hpc[c] = "wait"})

\* What a read computes from the shared state.
ReadOf(um, request) ==
    CASE request.type = "All" -> get_all_dirs(um)
      [] request.type = "Search" -> search(um, request.search_term)
      [] request.type = "Query" -> query_file(um, request.file_hash)

C16_PingIsAnsweredWithItsText ==
    [][\A c \in Slots :
          (HandleClient(c) /\ user[c].kind = "LoggedInUser"
           /\ Head(requests[c]).type = "Ping") =>
              /\ Answered(c, [type |-> "Pong",
                               message |-> Head(requests[c]).message])
              /\ user' = user
              /\ user_manager' = user_manager
              /\ hpc' = hpc
              /\ \A d \in Slots \ {c} : responses'[d] = responses[d]]_vars

\* Two logged-in connections have each sent a Ping with a text of its own
\* and each holds the Pong with its text.
C16_Witness ==
    /\ \A c \in Slots : user[c].kind = "LoggedInUser"
    /\ responses[1] = <<Pong("Sup!")>>
    /\ responses[2] = <<Pong("yo")>>


\* ----------------------------------------------------- the codec on its own
\* How many class definitions follow the import of the module.
MaxDefinitions == 2

Alice == User("alice", "10.0.0.1")
Bob == User("bob", "10.0.0.2")

\* The messages given to bytes(): every variant, with empty texts, texts
\* that hold a colon, nested and empty directories, and results with no,
\* one and several users.
CodecMessages ==
    { Login(<<"a">>, <<"p">>), Login(<<>>, <<>>),
      Login(<<"a", ":", "b">>, <<"p">>), Login(<<"a">>, <<"p", ":">>),
      WrongPassword, All, Ok, Fin,
      Ping(<<"S", "u", "p", "!">>), Ping(<<>>), Pong(<<"y", "o">>),
      Error(<<"n", "o">>), Error(<<":">>),
      Search(<<"o", "g">>), Query(<<"h", "1">>),
      Declare(Docs), Declare(Pics), Declare(Directory(<<"e">>, <<>>)),
      SearchResults(<<>>),
      SearchResults(<< <<Alice, <<Docs>>>> >>),
      SearchResults(<< <<Alice, <<Pics, Docs>>>>, <<Bob, <<>>>> >>),
      QuerySearchResults(<<>>),
      QuerySearchResults(<<Alice, Bob>>),
      QuerySearchResults(<<Alice, Alice>>) }

\* JSON that is almost a directory dict.
JDirectory(name, contents) ==
    JDict(<< <<"type", JStr("directory")>>, <<"name", name>>,
             <<"contents", contents>> >>)

\* The byte strings given to from_bytes as they are: the empty one, command
\* codes no class has, and payloads that the class of the code cannot parse
\* or does not look at.
RawInputs ==
    { <<>>,
      <<Byte(109), Char("e"), Char("o"), Char("w")>>,
      <<Byte(0), Byte(30), Char("["), Char("1"), Char("]")>>,
      <<Byte(99)>>,
      <<Byte(30)>>,
      <<Byte(30), Char("a")>>,
      <<Byte(30), Char("a"), Char(":"), Char("b"), Char(":"), Char("c")>>,
      <<Byte(30), Byte(255)>>,
      <<Byte(10), Byte(255)>>,
      <<Byte(1), Char("x")>>,
      <<Byte(75), Byte(255)>>,
      <<Byte(15)>>,
      <<Byte(15), Char("{")>>,
      <<Byte(15)>> \o JsonDumps(JList(<<>>)),
      <<Byte(15)>> \o JsonDumps(JDict(<< <<"type", JStr("directory")>> >>)),
      <<Byte(15)>> \o JsonDumps(JDirectory(JInt(1), JList(<<>>))),
      <<Byte(15)>> \o JsonDumps(JDict(<< <<"type", JStr("folder")>>,
                                         <<"name", JStr(<<"d">>)>>,
                                         <<"contents", JList(<<>>)>> >>)),
      <<Byte(15)>> \o JsonDumps(JDirectory(JStr(<<"d">>), JList(<<JDict(<<>>)>>))),
      <<Byte(15)>> \o JsonDumps(JDirectory(JStr(<<"d">>), JList(<<JInt(1)>>))),
      <<Byte(15)>> \o JsonDumps(JDirectory(JStr(<<"d">>), JInt(1))),
      <<Byte(15)>> \o JsonDumps(JDirectory(JStr(<<"d">>), JStr(<<>>))),
      <<Byte(15)>> \o JsonDumps(JDirectory(JStr(<<"d">>),
                        JList(<<JDict(<<>>), JInt(1)>>))),
      <<Byte(41)>>,
      <<Byte(41)>> \o JsonDumps(JDict(<<>>)),
      <<Byte(41)>> \o JsonDumps(JList(<<JInt(1)>>)),
      <<Byte(41)>> \o JsonDumps(JList(<<JList(<<JUser(Alice)>>)>>)),
      <<Byte(41)>> \o JsonDumps(JList(<<JList(<<JUser(Alice), JList(<<>>),
                                               JInt(1)>>)>>)),
      <<Byte(41)>> \o JsonDumps(JList(<<JList(<<JUser(Alice),
                                               JList(<<JInt(1)>>)>>)>>)),
      <<Byte(41)>> \o JsonDumps(JList(<<JList(<<JUser(Alice),
            JList(<<JDirectory(JStr(<<"d">>), JList(<<JStr(<<"x">>)>>))>>)>>)>>)),
      <<Byte(42)>> \o JsonDumps(JInt(1)),
      <<Byte(42)>> \o JsonDumps(JList(<<JList(<<JStr(<<"a">>)>>)>>)),
      <<Byte(42)>> \o JsonDumps(JList(<<JList(<<JStr(<<"a">>), JStr(<<"b">>),
                                               JStr(<<"c">>)>>)>>)) }

\* The class statements that may follow the import: a new code, and codes
\* that Ping and Fin have.
NewClasses == {<<"Extra", 99>>, <<"Other", 98>>, <<"Extra", 10>>, <<"Other", 75>>}

\* One run of the codec: a message to encode and decode again, or bytes to
\* decode.
CodecInit ==
    /\ ServerInit
    /\ TcpIdle
    /\ SessionIdle
    /\ FsIdle
    /\ registry = RegisteredMessageTypes
    /\ raised = "none"
    /\ decoded = None
    /\ \/ /\ message \in CodecMessages
          /\ data = <<>>
          /\ codec_pc = "message"
       \/ /\ message = None
          /\ data \in RawInputs
          /\ codec_pc = "bytes"

\* bytes(message)
EncodeMessage ==
    /\ codec_pc = "message"
    /\ data' = to_bytes(message)
    /\ codec_pc' = "bytes"
    /\ UNCHANGED <<registry, raised, message, decoded>>
    /\ UNCHANGED <<server_vars, tcp_vars, session_vars, fs_vars>>

\* messages.from_bytes(data)
DecodeBytes ==
    /\ codec_pc = "bytes"
    /\ decoded' = from_bytes(registry, data)
    /\ codec_pc' = "decoded"
    /\ UNCHANGED <<registry, raised, message, data>>
    /\ UNCHANGED <<server_vars, tcp_vars, session_vars, fs_vars>>

\* class cls(ServerMessage): command = command
DefineSubclass(cls, command) ==
    /\ Len(registry) < Len(RegisteredMessageTypes) + MaxDefinitions
    /\ LET defined == init_subclass(registry, cls, command)
       IN /\ registry' = defined.registry
          /\ raised' = defined.raised
    /\ UNCHANGED <<message, data, decoded, codec_pc>>
    /\ UNCHANGED <<server_vars, tcp_vars, session_vars, fs_vars>>

CodecNext ==
    \/ EncodeMessage
    \/ DecodeBytes
    \/ \E class \in NewClasses : DefineSubclass(class[1], class[2])

CodecSpec == CodecInit /\ [][CodecNext]_vars

\* C17: decoding the bytes of a message gives a message equal to it, for
\* every variant and every value of its fields.
C17_RoundTripIsIdentity ==
    (codec_pc = "decoded" /\ message # None) => decoded = message

\* Every message whose texts hold no colon, and every message that is not
\* a Login, comes back as it was.
RoundTripOfLoginsWithoutColon ==
    (/\ codec_pc = "decoded"
     /\ message # None
     /\ message.type = "Login" =>
            \A i \in 1..Len(message.username \o message.password) :
                (message.username \o message.password)[i] # ":")
    => decoded = message

\* The case of C17 happens: a Declare of a nested directory has made the
\* round trip.
RoundTripWitness ==
    codec_pc = "decoded" /\ message = Declare(Docs) /\ decoded = message


\* The first byte of the input is a code no class is registered under.
Unregistered(bytes) == bytes # <<>> /\ bytes[1].v \notin DictKeys(registry)

\* C18: from_bytes raises ValueError, and returns no message, for empty
\* input, for input whose first byte is not a registered command code, and
\* for a registered code whose payload the variant fails to parse: a decode
\* that does not return a message raises ValueError.
C18_DecodeFailureIsValueError ==
    codec_pc = "decoded" =>
        ((data = <<>> \/ Unregistered(data) \/ IsError(decoded))
            => decoded = ValueError)

\* Empty input and unregistered codes raise ValueError, and a decode that
\* returns no message raises ValueError or TypeError.
DecodeFailureIsValueOrTypeError ==
    codec_pc = "decoded" =>
        /\ (data = <<>> \/ Unregistered(data)) => decoded = ValueError
        /\ decoded.type \in {"ValueError", "TypeError"}
                \cup {MessageClasses[i][1] : i \in 1..Len(MessageClasses)}
                \cup {class[1] : class \in NewClasses}

\* What C19 lists: the code of every variant.
ListedCodes ==
    { <<10, "Ping">>, <<11, "Pong">>, <<1, "Ok">>, <<20, "All">>,
      <<15, "Declare">>, <<40, "Search">>, <<41, "SearchResults">>,
      <<43, "Query">>, <<42, "QuerySearchResults">>, <<30, "Login">>,
      <<19, "WrongPassword">>, <<80, "Error">>, <<75, "Fin">> }

\* Every listed code is registered to its variant, and no code is
\* registered twice.
RegistryIsOneToOne ==
    /\ ListedCodes \subseteq Range(registry)
    /\ Cardinality(DictKeys(registry)) = Len(registry)

\* C19: the registry maps each code to exactly one variant, with the
\* listed codes; a class definition with a code that is already registered
\* raises TypeError and leaves the registry as it was; decoding never
\* changes the registry.
C19_RegistryKeepsOneVariantPerCode ==
    /\ []RegistryIsOneToOne
    /\ [][/\ \A class \in NewClasses :
                (DefineSubclass(class[1], class[2])
                    /\ class[2] \in DictKeys(registry))
                => (raised' = "TypeError" /\ registry' = registry)
          /\ DecodeBytes => registry' = registry]_vars

\* The case of C19 happens: after a class with a new code was registered, a
\* definition with a taken code was refused and bytes were decoded.
C19_Witness ==
    /\ raised = "TypeError"
    /\ Len(registry) > Len(RegisteredMessageTypes)
    /\ codec_pc = "decoded"
    /\ RegistryIsOneToOne


\* ------------------------------------------- tcp_network.Session on its own
\* A byte string is a sequence of numbers below 256.
FRAME_SIZE == 4
MESSAGE_CHUNK_SIZE == 1024

\* How many messages the sending side writes.
MaxSends == 3

\* The byte strings given to send: the empty one, short ones, and one whose
\* bytes look like a frame.
TcpMessages == {<<>>, <<7>>, <<7, 8>>, <<0, 0, 0, 1, 9>>}

RECURSIVE IntToBytes(_, _)
\* int.to_bytes(length), big-endian
IntToBytes(n, length) ==
    IF length = 0 THEN <<>>
    ELSE Append(IntToBytes(n \div 256, length - 1), n % 256)

RECURSIVE IntFromBytes(_)
\* int.from_bytes(bytes), big-endian
IntFromBytes(bytes) ==
    IF bytes = <<>> THEN 0
    ELSE IntFromBytes(SubSeq(bytes, 1, Len(bytes) - 1)) * 256
            + bytes[Len(bytes)]

\* A frame that is two bytes long.
get_message_frame_short(bytes) == <<Len(bytes) \div 256, Len(bytes) % 256>>

\* Session._get_message_frame
get_message_frame(bytes) == IntToBytes(Len(bytes), FRAME_SIZE)

\* A read that always asks for a whole chunk.
ReadLimitWholeChunk(delta, chunk_size) == chunk_size

\* How many bytes _read_message_incrementally asks the reader for.
ReadLimit(delta, chunk_size) ==
    IF delta > chunk_size THEN chunk_size ELSE delta

Min(a, b) == IF a < b THEN a ELSE b

\* The receive call has raised and left _is_closed set.
RxClosed == [pc |-> "closed", size |-> 0, chunk_size |-> 0, msg |-> <<>>]

Reading == rx.pc \in {"frame", "message"} /\ rx.size > Len(rx.msg)

TcpInit ==
    /\ ServerInit
    /\ CodecIdle
    /\ TcpIdle
    /\ SessionIdle
    /\ FsIdle

\* Session.send(bytes) on the sending side.
Send(bytes) ==
    /\ ~eof
    /\ Len(sent) < MaxSends
    /\ sent' = Append(sent, bytes)
    /\ stream' = stream \o get_message_frame(bytes) \o bytes
    /\ UNCHANGED <<received, rx, eof>>
    /\ UNCHANGED <<server_vars, codec_vars, session_vars, fs_vars>>

\* Session.disconnect() on the sending side.
SenderDisconnect ==
    /\ ~eof
    /\ eof' = TRUE
    /\ UNCHANGED <<sent, stream, received, rx>>
    /\ UNCHANGED <<server_vars, codec_vars, session_vars, fs_vars>>

\* Session.receive() is called: _read(FRAME_SIZE, FRAME_SIZE) starts.
ReceiveStart ==
    /\ rx.pc = "idle"
    /\ rx' = [pc |-> "frame", size |-> FRAME_SIZE,
              chunk_size |-> FRAME_SIZE, msg |-> <<>>]
    /\ UNCHANGED <<sent, stream, received, eof>>
    /\ UNCHANGED <<server_vars, codec_vars, session_vars, fs_vars>>

\* One turn of the loop of _read_message_incrementally: reader.read(n)
\* returns at least one and at most n of the bytes that have arrived.
ReadChunk ==
    /\ Reading
    /\ stream # <<>>
    /\ \E k \in 1..Min(ReadLimit(rx.size - Len(rx.msg), rx.chunk_size),
                       Len(stream)) :
          /\ rx' = [rx EXCEPT !.msg = rx.msg \o SubSeq(stream, 1, k)]
          /\ stream' = SubSeq(stream, k + 1, Len(stream))
    /\ UNCHANGED <<sent, received, eof>>
    /\ UNCHANGED <<server_vars, codec_vars, session_vars, fs_vars>>

\* reader.read returns b'' at the end of the stream: _try_to_read_chunk
\* sets _is_closed and raises ConnectionAbortedError.
ReadAtEnd ==
    /\ Reading
    /\ stream = <<>>
    /\ eof
    /\ rx' = RxClosed
    /\ UNCHANGED <<sent, stream, received, eof>>
    /\ UNCHANGED <<server_vars, codec_vars, session_vars, fs_vars>>

\* reader.read raises OSError: the same, whatever is in the stream.
ReadRaises ==
    /\ Reading
    /\ rx' = RxClosed
    /\ UNCHANGED <<sent, stream, received, eof>>
    /\ UNCHANGED <<server_vars, codec_vars, session_vars, fs_vars>>

\* The frame is complete: _read(message_length, MESSAGE_CHUNK_SIZE) starts.
FrameRead ==
    /\ rx.pc = "frame"
    /\ ~Reading
    /\ rx' = [pc |-> "message", size |-> IntFromBytes(rx.msg),
              chunk_size |-> MESSAGE_CHUNK_SIZE, msg |-> <<>>]
    /\ UNCHANGED <<sent, stream, received, eof>>
    /\ UNCHANGED <<server_vars, codec_vars, session_vars, fs_vars>>

\* The message is complete: receive returns it.
ReceiveReturn ==
    /\ rx.pc = "message"
    /\ ~Reading
    /\ received' = Append(received, rx.msg)
    /\ rx' = RxIdle
    /\ UNCHANGED <<sent, stream, eof>>
    /\ UNCHANGED <<server_vars, codec_vars, session_vars, fs_vars>>

TcpNext ==
    \/ \E bytes \in TcpMessages : Send(bytes)
    \/ SenderDisconnect
    \/ ReceiveStart
    \/ ReadChunk
    \/ ReadAtEnd
    \/ ReadRaises
    \/ FrameRead
    \/ ReceiveReturn

TcpSpec == TcpInit /\ [][TcpNext]_vars

\* C20: the byte strings given to send are returned by the peer's receive
\* in the order sent, one per call of receive and byte for byte, however
\* many frames (equal ones among them) are in the stream when receive is
\* called.
C20_ReceiveReturnsWhatWasSentInOrder ==
    /\ [](/\ Len(received) <= Len(sent)
          /\ received = SubSeq(sent, 1, Len(received)))
    /\ [][received' # received =>
            /\ Len(received) < Len(sent)
            /\ received' = Append(received, sent[Len(received) + 1])]_vars

\* The case of C20 happens: all messages were written, receive has
\* returned the first, which looks like a frame, and the second, and the
\* third, equal to the second, is still whole in the stream.
C20_Witness ==
    /\ Len(sent) = MaxSends
    /\ sent[1] = <<0, 0, 0, 1, 9>>
    /\ sent[Len(sent)] = sent[Len(sent) - 1]
    /\ received = SubSeq(sent, 1, Len(sent) - 1)
    /\ rx.pc = "idle"
    /\ stream = get_message_frame(sent[Len(sent)]) \o sent[Len(sent)]


\* ------------------------------------------------- one frame through Session
\* A payload longer than one chunk.
LongPayload == [i \in 1..(MESSAGE_CHUNK_SIZE + 2) |-> i % 256]

\* The byte strings of the framing runs: the empty one, short ones, one
\* whose bytes look like a frame, and the long one.
FramePayloads == {<<>>, <<7>>, <<0, 0, 0, 1, 9>>, LongPayload}

\* One message is sent, at any time relative to the receive call, and
\* every read returns any non-empty part of what it asked for.
FrameNext ==
    \/ \E bytes \in FramePayloads : sent = <<>> /\ Send(bytes)
    \/ SenderDisconnect
    \/ ReceiveStart
    \/ ReadChunk
    \/ ReadAtEnd
    \/ ReadRaises
    \/ FrameRead
    \/ ReceiveReturn

FrameSpec == TcpInit /\ [][FrameNext]_vars

\* C21: send writes the payload's length as 4 bytes, most significant
\* first, and then the payload; receive takes exactly 4 bytes as the
\* length, then reads in turns of at most 1024 bytes and never past the
\* length, and returns exactly the bytes given to send, leaving nothing of
\* the frame in the stream, however the reads are split.
C21_ReceiveReadsOneFrameExactly ==
    [][/\ sent' # sent =>
            stream' = stream \o <<0, 0, Len(sent'[1]) \div 256,
                                  Len(sent'[1]) % 256>> \o sent'[1]
       /\ (rx'.pc = rx.pc /\ rx'.msg # rx.msg) =>
            /\ Len(rx'.msg) > Len(rx.msg)
            /\ Len(rx'.msg) <= Len(rx.msg) + 1024
            /\ Len(rx'.msg) <= rx.size
            /\ Len(stream) - Len(stream') = Len(rx'.msg) - Len(rx.msg)
       /\ (rx.pc = "frame" /\ rx'.pc = "message") =>
            (Len(rx.msg) = 4 /\ rx'.size = Len(sent[1]))
       /\ received' # received =>
            (received' = <<sent[1]>> /\ stream = <<>>)]_vars

\* The case of C21 happens: the long payload was returned after a read
\* that gave a whole chunk and reads that gave less.
C21_Witness ==
    /\ sent = <<LongPayload>>
    /\ received = sent
    /\ stream = <<>>

\* The empty payload is returned as well.
EmptyPayloadReceived == sent = <<<<>>>> /\ received = sent


\* ------------------------------------- Session objects and their transports
\* Both Session classes, tcp_network.Session (send, receive, disconnect on
\* bytes) and network.Session (send_message, read_message, disconnect on
\* messages), one call at a time. Of network.Session at most one frame is
\* under way in each direction, as between a client that waits for each
\* response and its server.
MaxSessionCalls == 4

SessionClasses == {"tcp_network", "network"}

\* What a Session of each class is given to send.
PayloadsOf(cls) ==
    IF cls = "tcp_network" THEN {<<1>>, <<2, 2>>}
    ELSE {Ping(<<"a">>), Ok}

Peer(s) == <<s[1], IF s[2] = "client" THEN "server" ELSE "client">>

\* A Session whose reader is the stream of the first connection, whichever
\* connection it was made for.
ReaderOfFirstConnection(s) == <<1, Peer(s)[2]>>

\* The end whose written bytes the reader of Session s gives: the reader
\* and writer that the Session was made with are those of its connection.
ReaderOf(s) == Peer(s)

\* A check that lets every call through.
SocketIsOpenAlways(session) == TRUE

\* Session._verify_the_socket_is_open / `if self._is_closed`
SocketIsOpen(session) == ~session.is_closed

\* The bytes one send writes: the frame and the data.
Written(cls, payload) ==
    LET bytes == IF cls = "network" THEN to_bytes(payload) ELSE payload
    IN [frame |-> get_message_frame(bytes), data |-> bytes]

\* What receive makes of one written frame: the first message_length bytes
\* of the data, decoded by read_message.
Received(cls, written) ==
    LET bytes == SubSeq(written.data, 1, IntFromBytes(written.frame))
    IN IF cls = "network" THEN from_bytes(RegisteredMessageTypes, bytes)
       ELSE bytes

SessionInit ==
    /\ ServerInit
    /\ CodecIdle
    /\ TcpIdle
    /\ SessionIdle
    /\ FsIdle

\* connect / open_connection on the client side and the accept callback on
\* the server side each make a Session of the connection's reader and writer.
SessionConnect(c, cls) ==
    /\ sess[<<c, "client">>].cls = "none"
    /\ sess' = [s \in SessionIds |->
                  IF s[1] = c THEN [NoSession EXCEPT !.cls = cls] ELSE sess[s]]
    /\ UNCHANGED <<pipe, failed, handed, taken, ncalls>>
    /\ UNCHANGED <<server_vars, codec_vars, tcp_vars, fs_vars>>

\* The transport of a connection fails: reads and writes raise OSError.
TransportBreaks(c) ==
    /\ sess[<<c, "client">>].cls # "none"
    /\ ~failed[c]
    /\ failed' = [failed EXCEPT ![c] = TRUE]
    /\ UNCHANGED <<sess, pipe, handed, taken, ncalls>>
    /\ UNCHANGED <<server_vars, codec_vars, tcp_vars, fs_vars>>

\* A method of Session s is called.
Called(s) ==
    /\ sess[s].cls # "none"
    /\ ncalls < MaxSessionCalls
    /\ ncalls' = ncalls + 1

\* The call raises the closed-session error before any I/O.
RaisesValueError(s) ==
    sess' = [sess EXCEPT ![s].raised = "ValueError", ![s].touched = FALSE]

\* The call marks the session closed and raises ConnectionAbortedError.
RaisesConnectionAborted(s) ==
    sess' = [sess EXCEPT ![s].is_closed = TRUE,
                         ![s].raised = "ConnectionAbortedError",
                         ![s].touched = TRUE]

\* The call returns after I/O on the transport.
Returns(s) == sess' = [sess EXCEPT ![s].raised = "none", ![s].touched = TRUE]

\* Session.send(data) / Session.send_message(message)
SessionSend(s, payload) ==
    /\ Called(s)
    /\ payload \in PayloadsOf(sess[s].cls)
    /\ sess[s].cls = "network" => pipe[s] = <<>>
    /\ IF ~SocketIsOpen(sess[s])
       THEN RaisesValueError(s) /\ UNCHANGED <<pipe, handed>>
       ELSE IF failed[s[1]]
       THEN RaisesConnectionAborted(s) /\ UNCHANGED <<pipe, handed>>
       ELSE /\ Returns(s)
            /\ pipe' = [pipe EXCEPT ![s] = Append(@, Written(sess[s].cls, payload))]
            /\ handed' = [handed EXCEPT ![s] = Append(@, payload)]
    /\ UNCHANGED <<failed, taken>>
    /\ UNCHANGED <<server_vars, codec_vars, tcp_vars, fs_vars>>

\* The reader of s has nothing more to give: its peer closed its writer and
\* every written byte was read, so read returns b''.
AtEnd(s) == pipe[ReaderOf(s)] = <<>> /\ sess[Peer(s)].writer_closed

\* Session.receive() / Session.read_message(); with nothing to read and the
\* stream not at its end the call waits.
SessionReceive(s) ==
    /\ Called(s)
    /\ \/ ~SocketIsOpen(sess[s])
       \/ failed[s[1]]
       \/ pipe[ReaderOf(s)] # <<>>
       \/ AtEnd(s)
    /\ IF ~SocketIsOpen(sess[s])
       THEN RaisesValueError(s) /\ UNCHANGED <<pipe, taken>>
       ELSE IF failed[s[1]] \/ AtEnd(s)
       THEN RaisesConnectionAborted(s) /\ UNCHANGED <<pipe, taken>>
       ELSE /\ Returns(s)
            /\ taken' = [taken EXCEPT ![s] =
                    Append(@, Received(sess[s].cls, Head(pipe[ReaderOf(s)])))]
            /\ pipe' = [pipe EXCEPT ![ReaderOf(s)] = Tail(@)]
    /\ UNCHANGED <<failed, handed>>
    /\ UNCHANGED <<server_vars, codec_vars, tcp_vars, fs_vars>>

\* tcp_network.Session.disconnect(), also through __aexit__: the check, then
\* writer.close() and wait_closed(), which returns or, on a transport that
\* has failed, may raise its OSError before _is_closed is set.
TcpDisconnect(s) ==
    /\ Called(s)
    /\ sess[s].cls = "tcp_network"
    /\ IF ~SocketIsOpen(sess[s])
       THEN RaisesValueError(s)
       ELSE \/ sess' = [sess EXCEPT ![s].writer_closed = TRUE,
                                    ![s].is_closed = TRUE,
                                    ![s].raised = "none",
                                    ![s].touched = TRUE]
            \/ /\ failed[s[1]]
               /\ sess' = [sess EXCEPT ![s].writer_closed = TRUE,
                                       ![s].raised = "OSError",
                                       ![s].touched = TRUE]
    /\ UNCHANGED <<pipe, failed, handed, taken>>
    /\ UNCHANGED <<server_vars, codec_vars, tcp_vars, fs_vars>>

\* network.Session.disconnect(): nothing on a closed session; otherwise
\* send_message(Fin()), whose error is not caught, then writer.close().
NetworkDisconnect(s) ==
    /\ Called(s)
    /\ sess[s].cls = "network"
    /\ IF sess[s].is_closed
       THEN /\ sess' = [sess EXCEPT ![s].raised = "none", ![s].touched = FALSE]
            /\ UNCHANGED <<pipe, handed>>
       ELSE IF failed[s[1]]
       THEN RaisesConnectionAborted(s) /\ UNCHANGED <<pipe, handed>>
       ELSE /\ sess' = [sess EXCEPT ![s].writer_closed = TRUE,
                                    ![s].is_closed = TRUE,
                                    ![s].raised = "none",
                                    ![s].touched = TRUE]
            /\ pipe' = [pipe EXCEPT ![s] = Append(@, Written("network", Fin))]
            /\ handed' = [handed EXCEPT ![s] = Append(@, Fin)]
    /\ UNCHANGED <<failed, taken>>
    /\ UNCHANGED <<server_vars, codec_vars, tcp_vars, fs_vars>>

SessionNext ==
    \/ \E c \in Conns, cls \in SessionClasses : SessionConnect(c, cls)
    \/ \E c \in Conns : TransportBreaks(c)
    \/ \E s \in SessionIds :
          \/ \E payload \in PayloadsOf(sess[s].cls) : SessionSend(s, payload)
          \/ SessionReceive(s)
          \/ TcpDisconnect(s)
          \/ NetworkDisconnect(s)

SessionSpec == SessionInit /\ [][SessionNext]_vars

IsPrefixOf(a, b) == Len(a) <= Len(b) /\ a = SubSeq(b, 1, Len(a))

\* C22: with several clients connected, what each server-side session has
\* received is what its own client sent, in order, and nothing of another
\* connection, however the clients' sends interleave.
C22_SessionsReceiveOnlyTheirOwnClient ==
    \A c \in Conns :
        sess[<<c, "server">>].cls = "tcp_network" =>
            IsPrefixOf(taken[<<c, "server">>], handed[<<c, "client">>])

\* The case of C22 happens: two clients are connected, both have sent,
\* different bytes, and both server-side sessions have received.
C22_Witness ==
    /\ \A c \in Conns :
          /\ sess[<<c, "server">>].cls = "tcp_network"
          /\ taken[<<c, "server">>] # <<>>
          /\ taken[<<c, "server">>] = handed[<<c, "client">>]
    /\ handed[<<1, "client">>] # handed[<<2, "client">>]


\* A send or receive of Session s.
SendOrReceive(s) ==
    \/ \E payload \in PayloadsOf(sess[s].cls) : SessionSend(s, payload)
    \/ SessionReceive(s)

\* The call of s meets a transport error, or a read of nothing at the end
\* of the stream.
MeetsTransportError(s) ==
    \/ failed[s[1]]
    \/ /\ SessionReceive(s)
       /\ pipe[Peer(s)] = <<>>
       /\ sess[Peer(s)].writer_closed

\* C23: a send or receive that meets a transport error, or reads nothing
\* where data was expected, marks the session closed and raises
\* ConnectionAbortedError; every send or receive on a closed session raises
\* ValueError at once, without a read or write on the transport.
C23_FailedSessionRefusesLaterCalls ==
    [][\A s \in SessionIds :
         SendOrReceive(s) =>
            /\ (~sess[s].is_closed /\ MeetsTransportError(s)) =>
                    /\ sess'[s].is_closed
                    /\ sess'[s].raised = "ConnectionAbortedError"
            /\ sess[s].is_closed =>
                    /\ sess'[s].is_closed
                    /\ sess'[s].raised = "ValueError"
                    /\ ~sess'[s].touched
                    /\ pipe' = pipe
                    /\ taken' = taken]_vars

\* The case of C23 happens: a session that a transport error closed (its
\* writer was never closed) has been called again and raised ValueError.
C23_Witness ==
    \E s \in SessionIds :
        /\ sess[s].is_closed
        /\ ~sess[s].writer_closed
        /\ sess[s].raised = "ValueError"

\* C24: disconnect on a session that is already closed does nothing and
\* raises nothing, and the session stays closed.
C24_DisconnectOfClosedSessionIsNoOp ==
    [][\A s \in SessionIds :
         (TcpDisconnect(s) /\ sess[s].is_closed) =>
            /\ sess'[s].raised = "none"
            /\ sess'[s].is_closed
            /\ ~sess'[s].touched]_vars

\* disconnect of network.Session on a closed session does nothing and
\* raises nothing.
NetworkDisconnectOfClosedSessionIsNoOp ==
    [][\A s \in SessionIds :
         (NetworkDisconnect(s) /\ sess[s].is_closed) =>
            /\ sess'[s] = [sess[s] EXCEPT !.raised = "none", !.touched = FALSE]
            /\ pipe' = pipe]_vars

\* A closed session of each class is reached, by disconnect and by a
\* transport error.
ClosedSessionsReached ==
    /\ \E s \in SessionIds :
          sess[s].cls = "tcp_network" /\ sess[s].is_closed /\ sess[s].writer_closed
    /\ \E s \in SessionIds :
          sess[s].cls = "network" /\ sess[s].is_closed /\ ~sess[s].writer_closed

\* C25: disconnect on an open session sends Fin and closes the transport;
\* when sending Fin fails because the peer is gone, the error is swallowed:
\* disconnect returns normally, the transport is closed all the same, and
\* the session ends marked closed.
C25_DisconnectSwallowsFailedFin ==
    [][\A s \in SessionIds :
         (NetworkDisconnect(s) /\ ~sess[s].is_closed) =>
            /\ sess'[s].raised = "none"
            /\ sess'[s].writer_closed
            /\ sess'[s].is_closed
            /\ ~failed[s[1]] =>
                    pipe'[s] = Append(pipe[s], Written("network", Fin))]_vars

\* On a transport that works, disconnect of an open network.Session writes
\* Fin, closes the writer and marks the session closed.
DisconnectSendsFinAndCloses ==
    [][\A s \in SessionIds :
         (NetworkDisconnect(s) /\ ~sess[s].is_closed /\ ~failed[s[1]]) =>
            /\ sess'[s].raised = "none"
            /\ sess'[s].writer_closed
            /\ sess'[s].is_closed
            /\ pipe'[s] = Append(pipe[s], Written("network", Fin))]_vars


\* C26: a frame that does not decode is not fatal: the connection loop
\* goes on (the server answers with an Error and reads again), the client
\* is not dropped, nothing is put on the handler's queue, and the users are
\* as they were.
C26_UndecodableFrameIsNotFatal ==
    [][\A c \in Slots :
         NetRead(c, BadFrame) =>
            /\ netpc'[c] # "finished"
            /\ cpc'[c] # "closed"
            /\ requests'[c] = requests[c]
            /\ user' = user
            /\ user_manager' = user_manager]_vars


\* ---------------------------------------------------- Directory on its own
\* The files of the trees: two names that share a character, equal hashes
\* under different names, and a name no term matches.
FsFiles ==
    { File(<<"a">>, "h1", 1), File(<<"a", "b">>, "h2", 2),
      File(<<"c">>, "h1", 1) }

FsDirNames == {<<"b">>, <<"d">>}

\* The contents of a directory: none, one or two of the items, in every
\* order and with repeats.
ContentsOver(items) ==
    {<<>>} \cup {<<x>> : x \in items}
           \cup {<<x, y>> : x \in items, y \in items}

\* Directories of files.
FsLeafDirs ==
    {Directory(name, contents) :
        name \in FsDirNames, contents \in ContentsOver(FsFiles)}

\* A tree three directories deep with an empty directory in it.
FsDeep ==
    Directory(<<"r">>,
        << Directory(<<"d">>,
               << Directory(<<"a">>, <<File(<<"c">>, "h1", 1)>>),
                  File(<<"a", "b">>, "h2", 2),
                  Directory(<<"e">>, <<>>) >>),
           File(<<"a">>, "h1", 1),
           Directory(<<"d">>, <<File(<<"c">>, "h1", 1)>>) >>)

\* The directories the methods are called on.
FsDirs ==
    {Directory(name, contents) :
        name \in FsDirNames,
        contents \in ContentsOver(FsFiles \cup FsLeafDirs)}
    \cup {FsDeep, Docs, Pics}

FsTerms == {<<>>, <<"a">>, <<"b">>, <<"a", "b">>, <<"d">>, <<"z">>}

\* A directory and a term are given; one method is then called.
FsInit ==
    /\ ServerInit
    /\ CodecIdle
    /\ TcpIdle
    /\ SessionIdle
    /\ fs_dir \in FsDirs
    /\ fs_term \in FsTerms
    /\ fs_out = None
    /\ fs_pc = "start"

\* fs_dir.search(fs_term)
FsSearch ==
    /\ fs_pc = "start"
    /\ fs_out' = DirSearch(fs_dir, fs_term)
    /\ fs_pc' = "searched"
    /\ UNCHANGED <<fs_dir, fs_term>>
    /\ UNCHANGED <<server_vars, codec_vars, tcp_vars, session_vars>>

\* list(fs_dir)
FsIterate ==
    /\ fs_pc = "start"
    /\ fs_out' = DirIter(fs_dir)
    /\ fs_pc' = "iterated"
    /\ UNCHANGED <<fs_dir, fs_term>>
    /\ UNCHANGED <<server_vars, codec_vars, tcp_vars, session_vars>>

\* fs_dir.to_dict()
FsToDict ==
    /\ fs_pc = "start"
    /\ fs_out' = to_dict(fs_dir)
    /\ fs_pc' = "dict"
    /\ UNCHANGED <<fs_dir, fs_term>>
    /\ UNCHANGED <<server_vars, codec_vars, tcp_vars, session_vars>>

\* Directory.from_dict of that dict
FsFromDict ==
    /\ fs_pc = "dict"
    /\ fs_out' = from_dict(fs_out)
    /\ fs_pc' = "parsed"
    /\ UNCHANGED <<fs_dir, fs_term>>
    /\ UNCHANGED <<server_vars, codec_vars, tcp_vars, session_vars>>

FsNext ==
    \/ FsSearch
    \/ FsIterate
    \/ FsToDict
    \/ FsFromDict

FsSpec == FsInit /\ [][FsNext]_vars

\* The files among what iterating x yields, in order; none for None.
FilesYielded(x) ==
    IF x = None THEN <<>>
    ELSE SelectSeq(DirIter(x), LAMBDA y : y.type = "file")

RECURSIVE MatchingFiles(_, _, _)
RECURSIVE MatchingFilesOf(_, _, _)
\* The files of x, in pre-order, whose name contains the term or that lie
\* under a directory whose name contains it.
MatchingFiles(x, term, under_match) ==
    IF x.type = "file"
    THEN IF under_match \/ IsSubstring(term, x.name) THEN <<x>> ELSE <<>>
    ELSE MatchingFilesOf(x.contents, term,
                         under_match \/ IsSubstring(term, x.name))

MatchingFilesOf(contents, term, under_match) ==
    IF contents = <<>> THEN <<>>
    ELSE MatchingFiles(Head(contents), term, under_match)
            \o MatchingFilesOf(Tail(contents), term, under_match)

\* No directory of x, x included, has the term in its name.
NoDirectoryNamed(x, term) ==
    \A i \in 1..Len(DirIter(x)) :
        DirIter(x)[i].type = "directory"
            => ~IsSubstring(term, DirIter(x)[i].name)

RECURSIVE HasEmptiedDirectory(_, _, _)
\* x, a search result, holds a directory without contents that is not under
\* a directory named by the term nor named by it itself.
HasEmptiedDirectory(x, term, under_match) ==
    /\ x.type = "directory"
    /\ ~under_match
    /\ ~IsSubstring(term, x.name)
    /\ \/ x.contents = <<>>
       \/ \E i \in 1..Len(x.contents) :
             HasEmptiedDirectory(x.contents[i], term, FALSE)

\* No name in x, of a directory or of a file, holds the term.
NothingNamed(x, term) ==
    \A i \in 1..Len(DirIter(x)) : ~IsSubstring(term, DirIter(x)[i].name)

\* C28: search returns None when no name in the directory, its own
\* included, holds the term, and a result never holds a directory that
\* filtering has emptied.
C28_SearchOfNothingIsNone ==
    fs_pc = "searched" =>
        /\ NothingNamed(fs_dir, fs_term) => fs_out = None
        /\ fs_out # None => ~HasEmptiedDirectory(fs_out, fs_term, FALSE)

\* The case of C28 happens: a search that matches nothing in a directory
\* with subdirectories, one of them empty, returned None.
C28_Witness ==
    /\ fs_pc = "searched"
    /\ fs_dir = FsDeep
    /\ fs_term = <<"z">>
    /\ fs_out = None

RECURSIVE Occurrences(_, _)
RECURSIVE OccurrencesIn(_, _)
\* How many times y, a file or a directory, is present in the tree x.
Occurrences(x, y) ==
    (IF x = y THEN 1 ELSE 0)
    + (IF x.type = "directory" THEN OccurrencesIn(x.contents, y) ELSE 0)

OccurrencesIn(contents, y) ==
    IF contents = <<>> THEN 0
    ELSE Occurrences(Head(contents), y) + OccurrencesIn(Tail(contents), y)

\* How many times y is in the sequence.
Count(seq, y) == Cardinality({i \in 1..Len(seq) : seq[i] = y})

RECURSIVE Expansions(_)
\* For each child in order, the child file or the iteration of the child
\* directory.
Expansions(contents) ==
    IF contents = <<>> THEN <<>>
    ELSE (IF Head(contents).type = "directory"
          THEN DirIter(Head(contents)) ELSE <<Head(contents)>>)
         \o Expansions(Tail(contents))

\* C29: iterating a directory yields the directory itself first, then the
\* expansion of each child in order, and yields every file and every
\* directory of the tree, empty ones included, as many times as it is
\* present.
C29_IterationIsPreOrder ==
    fs_pc = "iterated" =>
        /\ Head(fs_out) = fs_dir
        /\ Tail(fs_out) = Expansions(fs_dir.contents)
        /\ \A i \in 1..Len(fs_out) :
              Count(fs_out, fs_out[i]) = Occurrences(fs_dir, fs_out[i])
        /\ \A f \in FsFiles \cup FsLeafDirs :
              Count(fs_out, f) = Occurrences(fs_dir, f)

\* The case of C29 happens: the deep tree was iterated, with its empty
\* directory, its repeated file and its three levels.
C29_Witness ==
    /\ fs_pc = "iterated"
    /\ fs_dir = FsDeep
    /\ Len(fs_out) = 9
    /\ Count(fs_out, File(<<"c">>, "h1", 1)) = 2
    /\ Count(fs_out, Directory(<<"e">>, <<>>)) = 1

\* C30: Directory.from_dict(d.to_dict()) equals d, contents in order.
C30_FromDictUndoesToDict ==
    fs_pc = "parsed" => fs_out = fs_dir

\* The case of C30 happens: the deep tree came back from its dict.
C30_Witness ==
    /\ fs_pc = "parsed"
    /\ fs_dir = FsDeep
    /\ fs_out = FsDeep


\* ------------------------------------------- the user state machine, again
\* The handler of connection c processes a request of a logged-in user.
LoggedInRequest(c, types) ==
    /\ HandleClient(c)
    /\ user[c].kind = "LoggedInUser"
    /\ Head(requests[c]).type \in types

ReadRequests == {"Ping", "All", "Search", "Query"}

\* C31: Ping, All, Search and Query of a logged-in user change no user, no
\* declared directory and no UserManager list, and the same request
\* processed again at once is given an equal response.
C31_ReadRequestsChangeNothing ==
    [][\A c \in Slots :
          LoggedInRequest(c, ReadRequests) =>
              /\ user' = user
              /\ user_manager' = user_manager
              /\ LET again == handle_request(user_manager', user'[c],
                                             Head(requests[c]))
                 IN /\ Answered(c, again.response)
                    /\ again.um = user_manager
                    /\ again.user = user[c]]_vars

\* The case of C31 happens: a Search that matches part of a declared
\* directory has been answered, and the directory is still whole.
C31_Witness ==
    \E c \in Slots :
        /\ user[c].kind = "LoggedInUser"
        /\ user[c].declared_dirs = <<Docs>>
        /\ responses[c] # <<>>
        /\ responses[c][1].type = "SearchResults"
        /\ responses[c][1].results # <<>>
        /\ responses[c][1] = search(user_manager, <<"o", "g">>)
        /\ DirSearch(Docs, <<"o", "g">>) # Docs

CommandsOfLoggedIn == {"Fin", "Ping", "Declare", "All", "Search", "Query"}

\* C32 as stated: a logged-in user's message outside Fin, Ping, Declare,
\* All, Search and Query is answered Error("Unrecognized command").
C32_OtherMessagesAreUnrecognized ==
    [][\A c \in Slots :
          /\ HandleClient(c)
          /\ user[c].kind = "LoggedInUser"
          /\ Head(requests[c]).type \notin CommandsOfLoggedIn
          => /\ user' = user
             /\ user_manager' = user_manager
             /\ hpc'[c] = "wait"
             /\ Answered(c, Error("Unrecognized command"))]_vars

\* C32: a logged-in user's message outside Fin, Ping, Declare, All, Search
\* and Query (a second Login, an Ok) leaves the user logged in under the same
\* account with the same declarations, changes no list, and is answered
\* Error("Unrecognized command??").
C32_OtherMessagesAreUnrecognizedWithCodeText ==
    [][\A c \in Slots :
          /\ HandleClient(c)
          /\ user[c].kind = "LoggedInUser"
          /\ Head(requests[c]).type \notin CommandsOfLoggedIn
          => /\ user' = user
             /\ user_manager' = user_manager
             /\ hpc'[c] = "wait"
             /\ Answered(c, Error("Unrecognized command??"))]_vars

\* The case of C32 happens: a logged-in user that has declared a directory
\* was answered the error and is online with the directory.
C32_Witness ==
    \E c \in Slots :
        /\ user[c].kind = "LoggedInUser"
        /\ user[c].declared_dirs # <<>>
        /\ user[c] \in Range(user_manager.logged_in_users)
        /\ responses[c] = <<Error("Unrecognized command??")>>

\* C33: a Query response lists no user twice, whatever was declared.
C33_QueryListsUserOnce ==
    [][\A c \in Slots :
          LoggedInRequest(c, {"Query"}) =>
              LET listed == responses'[c][Len(responses'[c])].results
              IN \A i, j \in 1..Len(listed) :
                    listed[i] = listed[j] => i = j]_vars


\* -------------------------------- protocol/network.py: Session.read_message
\* The encoded messages of the read_message runs: Fin, Ok and Ping('yo').
EncodedMessages == {<<75>>, <<1>>, <<10, 121, 111>>}

\* Session.send_message(message): the length of bytes(message) in
\* FRAME_SIZE bytes, then the bytes, in one write.
SendMessage(bytes) ==
    /\ ~eof
    /\ Len(sent) < MaxSends
    /\ sent' = Append(sent, bytes)
    /\ stream' = stream \o IntToBytes(Len(bytes), FRAME_SIZE) \o bytes
    /\ UNCHANGED <<received, rx, eof>>
    /\ UNCHANGED <<server_vars, codec_vars, session_vars, fs_vars>>

\* Session.read_message() is called on an open session.
ReadMessageStart ==
    /\ rx.pc = "idle"
    /\ rx' = [pc |-> "frame", size |-> FRAME_SIZE,
              chunk_size |-> FRAME_SIZE, msg |-> <<>>]
    /\ UNCHANGED <<sent, stream, received, eof>>
    /\ UNCHANGED <<server_vars, codec_vars, session_vars, fs_vars>>

\* frame := reader.read(FRAME_SIZE), once: at least one and at most
\* FRAME_SIZE of the bytes that have arrived; message_length is
\* int.from_bytes of what it returned.
ReadFrameOnce ==
    /\ rx.pc = "frame"
    /\ stream # <<>>
    /\ \E k \in 1..Min(FRAME_SIZE, Len(stream)) :
          /\ rx' = [pc |-> "message",
                    size |-> IntFromBytes(SubSeq(stream, 1, k)),
                    chunk_size |-> MESSAGE_CHUNK_SIZE, msg |-> <<>>]
          /\ stream' = SubSeq(stream, k + 1, Len(stream))
    /\ UNCHANGED <<sent, received, eof>>
    /\ UNCHANGED <<server_vars, codec_vars, session_vars, fs_vars>>

\* One turn of `while len(msg) < message_length`: reader.read(CHUNK_SIZE)
\* returns at least one and at most CHUNK_SIZE of the bytes that have
\* arrived, and all of it is added to msg.
ReadMessageChunk ==
    /\ rx.pc = "message"
    /\ Len(rx.msg) < rx.size
    /\ stream # <<>>
    /\ \E k \in 1..Min(MESSAGE_CHUNK_SIZE, Len(stream)) :
          /\ rx' = [rx EXCEPT !.msg = rx.msg \o SubSeq(stream, 1, k)]
          /\ stream' = SubSeq(stream, k + 1, Len(stream))
    /\ UNCHANGED <<sent, received, eof>>
    /\ UNCHANGED <<server_vars, codec_vars, session_vars, fs_vars>>

\* A read returns b'' at the end of the stream or raises OSError:
\* _is_closed is set and ConnectionAbortedError raised.
ReadMessageFails ==
    /\ \/ rx.pc = "frame"
       \/ rx.pc = "message" /\ Len(rx.msg) < rx.size
    /\ rx' = RxClosed
    /\ UNCHANGED <<sent, stream, received, eof>>
    /\ UNCHANGED <<server_vars, codec_vars, session_vars, fs_vars>>

\* The loop ends: bytes(msg) is given to messages.from_bytes.
ReadMessageReturn ==
    /\ rx.pc = "message"
    /\ Len(rx.msg) >= rx.size
    /\ received' = Append(received, rx.msg)
    /\ rx' = RxIdle
    /\ UNCHANGED <<sent, stream, eof>>
    /\ UNCHANGED <<server_vars, codec_vars, session_vars, fs_vars>>

MessageNext ==
    \/ \E bytes \in EncodedMessages : SendMessage(bytes)
    \/ SenderDisconnect
    \/ ReadMessageStart
    \/ ReadFrameOnce
    \/ ReadMessageChunk
    \/ ReadMessageFails
    \/ ReadMessageReturn

MessageSpec == TcpInit /\ [][MessageNext]_vars

\* C34: each read_message takes 4 bytes as the length and gives from_bytes
\* exactly the bytes of the oldest message not yet returned, whatever else
\* is in the stream and however the reads are split.
C34_ReadMessageReadsItsOwnFrame ==
    /\ [][(rx.pc = "frame" /\ rx'.pc = "message") =>
            Len(stream) - Len(stream') = FRAME_SIZE]_vars
    /\ [][received' # received =>
            /\ Len(received) < Len(sent)
            /\ received' = Append(received, sent[Len(received) + 1])]_vars


\* ------------------------------------------------- the shapes of payloads
\* FileDict: type 'file', name and hash strings, size an int.
FileShape(val) ==
    /\ val.j = "dict"
    /\ {"type", "name", "hash", "size"} \subseteq DictKeys(val.v)
    /\ DictGet(val.v, "type") = JStr("file")
    /\ DictGet(val.v, "name").j = "str"
    /\ DictGet(val.v, "hash").j = "str"
    /\ DictGet(val.v, "size").j = "int"

RECURSIVE DirectoryShape(_)
\* DirectoryDict: type 'directory', name a string, contents a list of
\* DirectoryDicts and FileDicts.
DirectoryShape(val) ==
    /\ val.j = "dict"
    /\ {"type", "name", "contents"} \subseteq DictKeys(val.v)
    /\ DictGet(val.v, "type") = JStr("directory")
    /\ DictGet(val.v, "name").j = "str"
    /\ DictGet(val.v, "contents").j = "list"
    /\ \A i \in 1..Len(DictGet(val.v, "contents").v) :
          \/ DirectoryShape(DictGet(val.v, "contents").v[i])
          \/ FileShape(DictGet(val.v, "contents").v[i])

\* A user as JSON: a pair of strings.
UserShape(val) ==
    /\ val.j = "list"
    /\ Len(val.v) = 2
    /\ val.v[1].j = "str"
    /\ val.v[2].j = "str"

\* The JSON each of the three classes writes.
ExpectedShape(cls, val) ==
    CASE cls = "Declare" -> DirectoryShape(val)
      [] cls = "SearchResults" ->
            /\ val.j = "list"
            /\ \A i \in 1..Len(val.v) :
                  /\ val.v[i].j = "list"
                  /\ Len(val.v[i].v) = 2
                  /\ UserShape(val.v[i].v[1])
                  /\ val.v[i].v[2].j = "list"
                  /\ \A k \in 1..Len(val.v[i].v[2].v) :
                        DirectoryShape(val.v[i].v[2].v[k])
      [] cls = "QuerySearchResults" ->
            /\ val.j = "list"
            /\ \A i \in 1..Len(val.v) : UserShape(val.v[i])

\* The data decoded is the code of one of the three classes followed by
\* JSON that is not of the class's shape.
MisshapenJson ==
    /\ data # <<>>
    /\ data[1].v \in DictKeys(registry)
    /\ DictGet(registry, data[1].v)
          \in {"Declare", "SearchResults", "QuerySearchResults"}
    /\ LET payload == SubSeq(data, COMMAND_SIZE + 1, Len(data))
       IN /\ JsonLoads(payload) # ValueError
          /\ ~ExpectedShape(DictGet(registry, data[1].v), JsonLoads(payload))

\* C35: decoding a Declare, SearchResults or QuerySearchResults payload
\* that is JSON of another shape raises ValueError: no other exception and
\* no message.
C35_MisshapenJsonIsValueError ==
    (codec_pc = "decoded" /\ MisshapenJson) => decoded = ValueError

\* Misshapen JSON never decodes to a message: it raises ValueError or
\* TypeError.
MisshapenJsonIsNoMessage ==
    (codec_pc = "decoded" /\ MisshapenJson) => IsError(decoded)


\* ------------------------------------------------- declarations and logins
\* The handler of connection c logs its user out.
LogsOut(c) ==
    /\ HandleClient(c)
    /\ user[c].kind = "LoggedInUser"
    /\ user'[c].kind = "LoggedOutUser"

\* All, Search and Query, answered from the manager, do not list the user.
NotShown(um, u) ==
    /\ to_tuple(u) \notin DictKeys(get_all_dirs(um).results)
    /\ \A term \in SearchTerms :
          to_tuple(u) \notin DictKeys(search(um, term).results)
    /\ \A hash \in Hashes :
          to_tuple(u) \notin Range(query_file(um, hash).results)

\* A guest's Login is answered by logging it in with nothing declared.
LoginStartsWithoutDeclarations ==
    \A c \in Slots :
        (GuestLogin(c) /\ user'[c].kind = "LoggedInUser") =>
            /\ user'[c].declared_dirs = <<>>
            /\ user_manager'.logged_in_users =
                   Append(user_manager.logged_in_users, user'[c])
            /\ get_all_dirs(user_manager').results # <<>>
            /\ DictGet(get_all_dirs(user_manager').results,
                       to_tuple(user'[c])) = <<>>

\* C36: once a logged-in user has logged out, All, Search and Query do not
\* list it, and a Login to the account starts with no declared directories.
C36_DeclarationsEndWithTheSession ==
    /\ [][\A c \in Slots : LogsOut(c) => NotShown(user_manager', user[c])]_vars
    /\ [][LoginStartsWithoutDeclarations]_vars

\* The same for users whose name and ip no other logged-in user has, and
\* for every login.
DeclarationsEndWithTheSessionOfUsersWhoseKeyIsOwn ==
    /\ [][\A c \in Slots :
            (LogsOut(c) /\ KeyIsOwn(user_manager, user[c]))
                => NotShown(user_manager', user[c])]_vars
    /\ [][LoginStartsWithoutDeclarations]_vars


\* ------------------------------------------------- one record per connection
\* The handler of the connection has created its guest and not returned.
Live(c) == hpc[c] = "wait"

\* How many records of the list are of the connection's address.
RecordsOf(list, c) ==
    Cardinality({i \in 1..Len(list) : list[i].addr = addr[c]})

\* Each live handler's user is a connected state with one record, in the
\* list of its kind only, and the two lists hold nothing else.
OneRecordPerLiveHandler ==
    /\ \A c \in Slots :
          Live(c) =>
              /\ user[c].kind \in {"OnlineGuest", "LoggedInUser"}
              /\ RecordsOf(user_manager.online_guests, c)
                    = (IF user[c].kind = "OnlineGuest" THEN 1 ELSE 0)
              /\ RecordsOf(user_manager.logged_in_users, c)
                    = (IF user[c].kind = "LoggedInUser" THEN 1 ELSE 0)
              /\ user[c] \in Range(user_manager.online_guests)
                               \cup Range(user_manager.logged_in_users)
    /\ Len(user_manager.online_guests) + Len(user_manager.logged_in_users)
          = Cardinality({c \in Slots : Live(c)})

\* A handler that returns leaves one record: a guest's in offline_guests, a
\* logged-in user's in logged_out_users, and its record of before is gone.
TerminationLeavesOneRecord ==
    \A c \in Slots :
        (Live(c) /\ ~Live(c)') =>
            /\ user'[c].kind \in {"OfflineGuest", "LoggedOutUser"}
            /\ user[c].kind = "OnlineGuest" =>
                  /\ user_manager'.offline_guests =
                         Append(user_manager.offline_guests, user'[c])
                  /\ user_manager'.logged_out_users =
                         user_manager.logged_out_users
                  /\ Len(user_manager'.online_guests) =
                         Len(user_manager.online_guests) - 1
                  /\ user_manager'.logged_in_users =
                         user_manager.logged_in_users
            /\ user[c].kind = "LoggedInUser" =>
                  /\ user_manager'.logged_out_users =
                         Append(user_manager.logged_out_users, user'[c])
                  /\ user_manager'.offline_guests =
                         user_manager.offline_guests
                  /\ Len(user_manager'.logged_in_users) =
                         Len(user_manager.logged_in_users) - 1
                  /\ user_manager'.online_guests =
                         user_manager.online_guests

\* C37: each connection whose handler runs has exactly one record, in
\* online_guests or in logged_in_users and never in both; online_guests and
\* logged_in_users together hold as many records as handlers run; a
\* handler that ends leaves exactly one record, in offline_guests or in
\* logged_out_users.
C37_OneRecordPerConnection ==
    /\ []OneRecordPerLiveHandler
    /\ [][TerminationLeavesOneRecord]_vars

\* The case of C37 happens: a guest and a logged-in user are connected after
\* a logged-in user has gone.
C37_Witness ==
    /\ \E c, d \in Slots :
          /\ Live(c) /\ user[c].kind = "OnlineGuest"
          /\ Live(d) /\ user[d].kind = "LoggedInUser"
    /\ user_manager.offline_guests = <<>>
    /\ Len(user_manager.logged_out_users) = 1


\* How many records of the list have the name.
RecordsNamed(list, name) ==
    Cardinality({i \in 1..Len(list) : list[i].name = name})

\* C38: logged_in_users and logged_out_users together hold at most one
\* record of each username, so each username has one password.
C38_OneAccountPerName ==
    \A name \in Names :
        /\ RecordsNamed(user_manager.logged_in_users, name)
             + RecordsNamed(user_manager.logged_out_users, name) <= 1
        /\ Cardinality({u.password : u \in Accounts(user_manager, name)}) <= 1


\* ------------------------------------------------------- _handle_request
\* A message of every variant.
MessageVariants ==
    (Requests \ {BadFrame})
    \cup {Fin, WrongPassword, Pong("yo"), Error("no"), SearchResults(<<>>),
          QuerySearchResults(<<>>)}

TerminalKinds == {"OfflineGuest", "LoggedOutUser"}
ConnectedKinds == {"OnlineGuest", "LoggedInUser"}

\* For the user of every running handler and every message,
\* _handle_request returns a state and a response, and the response is None
\* exactly when the state is terminal, which is exactly for Fin.
HandleRequestIsTotal ==
    \A c \in Slots :
        hpc[c] = "wait" =>
            /\ user[c].kind \in ConnectedKinds
            /\ \A m \in MessageVariants :
                  LET r == handle_request(user_manager, user[c], m)
                  IN /\ r.user.kind \in ConnectedKinds \cup TerminalKinds
                     /\ r.response = None <=> r.user.kind \in TerminalKinds
                     /\ r.user.kind \in TerminalKinds <=> m.type = "Fin"

\* A turn of the handler for Fin puts nothing on the response queue and
\* ends the handler; a turn for any other message puts one response, which
\* is a message, and the handler goes on.
OnlyFinIsUnanswered ==
    \A c \in Slots :
        (hpc[c] = "wait" /\ requests[c] # <<>> /\ requests'[c] # requests[c]
         /\ requests'[c] = Tail(requests[c])) =>
            IF Head(requests[c]).type = "Fin"
            THEN /\ responses' = responses
                 /\ hpc'[c] = "done"
                 /\ user'[c].kind \in TerminalKinds
            ELSE /\ Len(responses'[c]) = Len(responses[c]) + 1
                 /\ responses'[c][Len(responses'[c])] # None
                 /\ hpc'[c] = "wait"
                 /\ user'[c].kind \in ConnectedKinds

\* C39: _handle_request returns for every connected state and every message
\* variant, with no response exactly when the new state is OfflineGuest or
\* LoggedOutUser; _handle_client never meets a None response after its
\* break, and puts nothing on the response queue for a Fin.
C39_HandleRequestIsTotal ==
    /\ []HandleRequestIsTotal
    /\ [][OnlyFinIsUnanswered]_vars
    /\ [](\A c \in Slots : \A i \in 1..Len(responses[c]) :
              responses[c][i] # None)

\* The case of C39 happens: one handler has ended on a logged-in user's Fin
\* with its response queue empty while another has answered a guest.
C39_Witness ==
    \E c, d \in Slots :
        /\ hpc[c] = "done"
        /\ user[c].kind = "LoggedOutUser"
        /\ responses[c] = <<>>
        /\ hpc[d] = "wait"
        /\ user[d].kind = "OnlineGuest"
        /\ responses[d] = <<GuestError>>

====
